---- MODULE Spec2Model ----
(***************************************************************************)
(* ClearBill receipt OCR: the text-to-record extractor parseReceiptText    *)
(* (src/lib/hooks/useReceiptOCR.ts:103-227; the copies in                  *)
(* src/app/api/line-items/[id]/route.ts:373-497 and                        *)
(* src/unnamed/part_000:360-484 are the same text), the OCR runs that      *)
(* store its record on a receipt (handleProcessOCR of                     *)
(* src/components/ReceiptDetails.tsx, processReceipt of                    *)
(* src/lib/hooks/useReceiptOCR.ts and of src/unnamed/part_000, fetchInvoice*)
(* of src/app/invoices/[id]/page.tsx, DELETE, PATCH and POST of            *)
(* src/app/api/line-items/[id]/route.ts, GET and DELETE of                 *)
(* /api/invoices/[id] in src/unnamed/part_004) and OCRImages               *)
(* (src/lib/pdf/OCRImages.ts).  The specifications share the variables:    *)
(* Spec (one call of parseReceiptText), SpecOcr (the runs on a receipt),   *)
(* SpecApi (the requests to the endpoints alone), SpecImages (one call of  *)
(* OCRImages) and SpecImagesFair (SpecImages with every task taking its    *)
(* steps); each leaves the variables of the others at their initial        *)
(* values.                                                                 *)
(*                                                                         *)
(* Representation.                                                         *)
(*  - A JavaScript string is a TLA+ string; a character is a string of     *)
(*    length 1 (Ch(s, i)); positions are 1-based, so JS index k is k + 1.  *)
(*  - A JavaScript number that parseFloat returns here always has at most  *)
(*    two decimal digits (the capture groups allow no more), so a number   *)
(*    is the record [nan |-> FALSE, val |-> v] with v the value in         *)
(*    hundredths (6.48 is 648), and NaN is [nan |-> TRUE, val |-> 0].      *)
(*    The record ocrData stores the hundredths. The amounts of the         *)
(*    documents checked stay far below 2^31 hundredths.                    *)
(*  - ocrData is a function whose DOMAIN is the set of keys the object     *)
(*    has: an absent key is a key outside the DOMAIN.                      *)
(***************************************************************************)
EXTENDS Integers, Sequences, FiniteSets, TLC

VARIABLES text, pc, ocrData,   \* one call of parseReceiptText
          receipt, runs, hook,  \* the OCR runs on one receipt
          started,              \* the number of runs started
          urls, tasks, progress, calls, images   \* one call of OCRImages

parserVars == <<text, pc, ocrData>>

flowVars == <<receipt, runs, hook, started>>

imageVars == <<urls, tasks, progress, calls, images>>

vars == <<text, pc, ocrData, receipt, runs, hook, started,
          urls, tasks, progress, calls, images>>

(***************************************************************************)
(* Characters and character classes of the regular expressions.            *)
(***************************************************************************)
\* s.slice(a - 1, b): the characters at positions a..b that exist
Slice(s, a, b) ==
  LET lo == IF a < 1 THEN 1 ELSE a
      hi == IF b > Len(s) THEN Len(s) ELSE b
  IN IF lo > hi THEN "" ELSE SubSeq(s, lo, hi)

\* s.charAt(i - 1): "" outside the string
Ch(s, i) == IF 1 <= i /\ i <= Len(s) THEN SubSeq(s, i, i) ELSE ""

\* \d (without the u flag: ASCII digits only)
Digit == {"0", "1", "2", "3", "4", "5", "6", "7", "8", "9"}

\* [A-Z]
Upper == {"A", "B", "C", "D", "E", "F", "G", "H", "I", "J", "K", "L", "M",
          "N", "O", "P", "Q", "R", "S", "T", "U", "V", "W", "X", "Y", "Z"}

\* [a-z]
Lower == {"a", "b", "c", "d", "e", "f", "g", "h", "i", "j", "k", "l", "m",
          "n", "o", "p", "q", "r", "s", "t", "u", "v", "w", "x", "y", "z"}

\* \s, and the characters String.prototype.trim strips (WhiteSpace and
\* LineTerminator); the ones a TLA+ string can write. The last is U+000B,
\* the vertical tab, written as the character itself.
Space == {" ", "\t", "\n", "\r", "\f", ""}

\* what . does not match (LineTerminator)
LineTerminator == {"\n", "\r"}

\* [-\/]
DateSep == {"-", "/"}

\* [\d,]
DigitComma == Digit \cup {","}

\* [:\s]
ColonSpace == Space \cup {":"}

\* [,\s]
CommaSpace == Space \cup {","}

\* [\s-]
SpaceHyphen == Space \cup {"-"}

UpperAlphabet == "ABCDEFGHIJKLMNOPQRSTUVWXYZ"
LowerAlphabet == "abcdefghijklmnopqrstuvwxyz"

LowerOf == [c \in Upper |->
              Ch(LowerAlphabet, CHOOSE i \in 1..26 : Ch(UpperAlphabet, i) = c)]

ToLowerCh(c) == IF c \in Upper THEN LowerOf[c] ELSE c

RECURSIVE toLowerCase(_)
\* String.prototype.toLowerCase, on the characters above
toLowerCase(s) ==
  IF s = "" THEN "" ELSE ToLowerCh(Head(s)) \o toLowerCase(Tail(s))

\* the number of consecutive characters of class cls starting at position i
RECURSIVE RunLen(_, _, _)
RunLen(s, i, cls) ==
  IF i <= Len(s) /\ Ch(s, i) \in cls THEN 1 + RunLen(s, i + 1, cls) ELSE 0

Min(S) == CHOOSE x \in S : \A y \in S : x <= y

MinOf(a, b) == IF a <= b THEN a ELSE b

\* String.prototype.includes
includes(s, sub) ==
  \E p \in 1..(Len(s) - Len(sub) + 1) : Slice(s, p, p + Len(sub) - 1) = sub

(***************************************************************************)
(* text.split('\n').map(line => line.trim()).filter(line => line)          *)
(***************************************************************************)
\* the number of consecutive characters outside cls starting at position i
RECURSIVE RunLenNot(_, _, _)
RunLenNot(s, i, cls) ==
  IF i <= Len(s) /\ Ch(s, i) \notin cls THEN 1 + RunLenNot(s, i + 1, cls) ELSE 0

\* the number of consecutive characters of cls ending at position i
RECURSIVE RunLenBack(_, _, _)
RunLenBack(s, i, cls) ==
  IF i >= 1 /\ Ch(s, i) \in cls THEN 1 + RunLenBack(s, i - 1, cls) ELSE 0

RECURSIVE split(_)
\* String.prototype.split('\n'): the pieces between the line feeds
split(s) ==
  LET n == RunLenNot(s, 1, {"\n"})
  IN IF n = Len(s) THEN <<s>>
     ELSE <<Slice(s, 1, n)>> \o split(Slice(s, n + 2, Len(s)))

\* String.prototype.trim
trim(s) ==
  LET a == RunLen(s, 1, Space)
  IN IF a = Len(s) THEN ""
     ELSE Slice(s, a + 1, Len(s) - RunLenBack(s, Len(s), Space))

\* the pieces left as they are, without trim()
mapUntrimmed(ls) == ls

RECURSIVE mapTrim(_)
\* map(line => line.trim())
mapTrim(ls) ==
  IF ls = <<>> THEN <<>> ELSE <<trim(Head(ls))>> \o mapTrim(Tail(ls))

RECURSIVE filterNonEmpty(_)
\* filter(line => line): the empty string is falsy
filterNonEmpty(ls) ==
  IF ls = <<>> THEN <<>>
  ELSE IF Head(ls) = "" THEN filterNonEmpty(Tail(ls))
       ELSE <<Head(ls)>> \o filterNonEmpty(Tail(ls))

\* const lines = text.split('\n').map(line => line.trim()).filter(line => line)
NormalizedLines(t) == filterNonEmpty(mapTrim(split(t)))

(***************************************************************************)
(* Numbers: parseFloat on a capture with its commas removed.               *)
(***************************************************************************)
NaN == [nan |-> TRUE, val |-> 0]

Num(v) == [nan |-> FALSE, val |-> v]

isNaN(x) == x.nan

DigitValue(c) == CHOOSE d \in 0..9 : Ch("0123456789", d + 1) = c

RECURSIVE DigitsValue(_)
\* the value of a string of decimal digits ("" is 0)
DigitsValue(s) ==
  IF s = "" THEN 0
  ELSE 10 * DigitsValue(Slice(s, 1, Len(s) - 1)) + DigitValue(Ch(s, Len(s)))

\* the capture with its commas left in
commasKept(s) == s

RECURSIVE removeCommas(_)
\* s.replace(/,/g, '')
removeCommas(s) ==
  IF s = "" THEN ""
  ELSE IF Head(s) = "," THEN removeCommas(Tail(s))
       ELSE Head(s) \o removeCommas(Tail(s))

\* the value in hundredths of the first two decimals
Hundredths(frac) ==
  IF Len(frac) = 0 THEN 0
  ELSE IF Len(frac) = 1 THEN 10 * DigitsValue(frac)
       ELSE DigitsValue(frac)

\* ni integer digits, then nf decimals after a '.' (nf = 0 without one)
ParseDecimal(s, ni, nf) ==
  IF ni = 0 /\ nf = 0 THEN NaN
  ELSE Num(100 * DigitsValue(Slice(s, 1, ni))
           + Hundredths(Slice(s, ni + 2, ni + 1 + MinOf(nf, 2))))

ParseAfterInt(s, ni) ==
  ParseDecimal(s, ni, IF Ch(s, ni + 1) = "." THEN RunLen(s, ni + 2, Digit)
                      ELSE 0)

\* parseFloat(s) for s made of digits and '.': the longest prefix that is a
\* decimal literal (digits, then optionally '.' and digits; or '.' and at
\* least one digit); NaN when there is none. The value is in hundredths; the
\* captures hold at most two decimals.
parseFloat(s) == ParseAfterInt(s, RunLen(s, 1, Digit))

(***************************************************************************)
(* String.prototype.match without the g flag: the leftmost match, as       *)
(* [ok, m0 (the whole match), m1, m2 (the capture groups)]; null is        *)
(* NoMatch.                                                                *)
(***************************************************************************)
NoMatch == [ok |-> FALSE, m0 |-> "", m1 |-> "", m2 |-> ""]

Match(whole, g1, g2) == [ok |-> TRUE, m0 |-> whole, m1 |-> g1, m2 |-> g2]

\* of the attempts at each start position, ats[p] the one at position p, the
\* match at the smallest position that has one
Leftmost(ats) ==
  LET ps == {p \in DOMAIN ats : ats[p].ok}
  IN IF ps = {} THEN NoMatch ELSE ats[Min(ps)]

\* the position after the run of cls at q (a greedy * that only its longest
\* run satisfies)
After(s, q, cls) == q + RunLen(s, q, cls)

\* the same for +: 0 when the run is empty or q is 0
AfterSome(s, q, cls) ==
  IF q > 0 /\ RunLen(s, q, cls) >= 1 THEN q + RunLen(s, q, cls) ELSE 0

\* \d{lo,hi} at position q, followed by something that is not a digit or by
\* nothing more of the pattern: greedy, so min(run, hi) digits, and lo at
\* least. (Where a separator must follow, giving digits back leaves a digit
\* where the separator is required, so no shorter choice matches either.)
\* The position after the digits; 0 when there is no match or q is 0.
DigitsEnd(s, q, lo, hi) ==
  IF q > 0 /\ MinOf(RunLen(s, q, Digit), hi) >= lo
  THEN q + MinOf(RunLen(s, q, Digit), hi) ELSE 0

\* [-\/] at position q: the position after it, 0 when it is not there
DateSepEnd(s, q) == IF q > 0 /\ Ch(s, q) \in DateSep THEN q + 1 ELSE 0

\* the match from p to e - 1, e the position after it; none when e is 0
MatchTo(s, p, e, g1) == IF e > 0 THEN Match(Slice(s, p, e - 1), g1, "") ELSE NoMatch

\* the position after \d{lo1,hi1}[-\/]\d{lo2,hi2}[-\/]\d{lo3,hi3} at p
NumSepNumSepNumEnd(s, p, lo1, hi1, lo2, hi2, lo3, hi3) ==
  DigitsEnd(s,
    DateSepEnd(s,
      DigitsEnd(s,
        DateSepEnd(s,
          DigitsEnd(s, p, lo1, hi1)),
        lo2, hi2)),
    lo3, hi3)

\* the whole match is the group
GroupIsMatch(m) == [m EXCEPT !.m1 = m.m0]

\* /(\d{1,2}[-\/]\d{1,2}[-\/]\d{2,4})/
DayFirstAt(s, p) ==
  GroupIsMatch(MatchTo(s, p, NumSepNumSepNumEnd(s, p, 1, 2, 1, 2, 2, 4), ""))

\* /(\d{2,4}[-\/]\d{1,2}[-\/]\d{1,2})/
YearFirstAt(s, p) ==
  GroupIsMatch(MatchTo(s, p, NumSepNumSepNumEnd(s, p, 2, 4, 1, 2, 1, 2), ""))

MonthNames == {"jan", "feb", "mar", "apr", "may", "jun",
               "jul", "aug", "sep", "oct", "nov", "dec"}

\* the position after [a-z]*\s+\d{1,2}[,\s]+\d{2,4} at q, flag i
MonthRestEnd(s, q) ==
  DigitsEnd(s,
    AfterSome(s,
      DigitsEnd(s,
        AfterSome(s,
          After(s, q, Lower \cup Upper),
          Space),
        1, 2),
      CommaSpace),
    2, 4)

\* /(jan|feb|...|dec)[a-z]*\s+\d{1,2}[,\s]+\d{2,4}/i at position p. Under
\* the i flag the month and [a-z] match either case. Each starred or plussed
\* class is followed by a character outside it, so only its longest run can
\* match.
MonthNameAt(s, p) ==
  IF toLowerCase(Slice(s, p, p + 2)) \in MonthNames
  THEN MatchTo(s, p, MonthRestEnd(s, p + 3), Slice(s, p, p + 2))
  ELSE NoMatch

\* the positions of the line that hold a digit: where the numeric patterns
\* can start
DigitStarts(line) == {p \in 1..Len(line) : Ch(line, p) \in Digit}

\* the positions that hold a first letter of a month name, in either case
LetterStarts(line) ==
  {p \in 1..Len(line) :
     Ch(line, p) \in {"j", "f", "m", "a", "s", "o", "n", "d",
                      "J", "F", "M", "A", "S", "O", "N", "D"}}

\* datePatterns, in order
matchDate(line, k) ==
  IF k = 1 THEN Leftmost([p \in DigitStarts(line) |-> DayFirstAt(line, p)])
  ELSE IF k = 2 THEN Leftmost([p \in DigitStarts(line) |-> YearFirstAt(line, p)])
  ELSE Leftmost([p \in LetterStarts(line) |-> MonthNameAt(line, p)])

(***************************************************************************)
(* The amount patterns: label[:\s]*\$?[\s]*([\d,]+\.?\d{0,2}), flag i.     *)
(* A pattern is its label: head, an optional [\s-] when gap, then tail.    *)
(***************************************************************************)
Label(l) == [head |-> "", gap |-> FALSE, tail |-> l]

totalPatterns == <<Label("total"), Label("amount"), Label("balance")>>

taxPatterns == <<Label("tax"), Label("gst"), Label("vat")>>

\* /sub[\s-]?total.../i, /subtotal.../i
subtotalPatterns ==
  <<[head |-> "sub", gap |-> TRUE, tail |-> "total"], Label("subtotal")>>

\* the tail of the label at position q: the position after it, or 0
LabelTailEnd(low, q, pat) ==
  IF Slice(low, q, q + Len(pat.tail) - 1) = pat.tail
  THEN q + Len(pat.tail) ELSE 0

\* the position after the label at position p, 0 when the label is not
\* there; low is the line in lower case (the i flag)
LabelEndAt(low, p, pat) ==
  IF Slice(low, p, p + Len(pat.head) - 1) = pat.head
  THEN LabelTailEnd(low,
         IF pat.gap /\ Ch(low, p + Len(pat.head)) \in SpaceHyphen
         THEN p + Len(pat.head) + 1 ELSE p + Len(pat.head),
         pat)
  ELSE 0

\* the positions of the line where the label is
LabelStarts(low, pat) == {p \in 1..Len(low) : LabelEndAt(low, p, pat) > 0}

\* \$? at position q: the position after it
AfterDollar(s, q) == IF Ch(s, q) = "$" THEN q + 1 ELSE q

\* \.? at position q: the position after it
AfterDot(s, q) == IF Ch(s, q) = "." THEN q + 1 ELSE q

\* \d{0,2} at position q: the position after it
AfterTwoDigits(s, q) == q + MinOf(RunLen(s, q, Digit), 2)

\* the position after [\d,]+\.?\d{0,2} at position g: the run of [\d,], a
\* '.' if there is one, up to two digits (nothing follows the group in the
\* pattern, so each takes all it can)
AmountEnd(s, g) == AfterTwoDigits(s, AfterDot(s, After(s, g, DigitComma)))

\* ([\d,]+\.?\d{0,2}) at position g, in a match that starts at p
AmountGroupAt(s, p, g) ==
  IF RunLen(s, g, DigitComma) >= 1
  THEN Match(Slice(s, p, AmountEnd(s, g) - 1),
             Slice(s, g, AmountEnd(s, g) - 1), "")
  ELSE NoMatch

\* [:\s]*\$?[\s]*([\d,]+\.?\d{0,2}) at position e, the position after the
\* label, in a match that starts at p; no match when e is 0. [:\s]*, \$?
\* and [\s]* each take all they can: what follows each is outside its class,
\* so giving characters back matches nothing more.
AmountAfterLabel(s, p, e) ==
  IF e = 0 THEN NoMatch
  ELSE AmountGroupAt(s, p,
         After(s, AfterDollar(s, After(s, e, ColonSpace)), Space))

\* the amount pattern pat at position p
AmountAt(s, low, p, pat) == AmountAfterLabel(s, p, LabelEndAt(low, p, pat))

\* line.match(pattern)
matchAmount(line, pat) ==
  LET low == toLowerCase(line)
  IN Leftmost([p \in LabelStarts(low, pat) |-> AmountAt(line, low, p, pat)])

(***************************************************************************)
(* The item pattern /^(.+?)\s+\$?([\d,]+\.?\d{2})$/                        *)
(***************************************************************************)
\* ([\d,]+\.?\d{2})$ at position t, n the length of the run of [\d,] there:
\* to the end of the line either the run, a '.' and two digits, or a run
\* that ends in two digits, which the greedy [\d,]+ gives back to \d{2}
ItemAmountEnds(s, t, n) ==
  \/ /\ n >= 1
     /\ Ch(s, t + n) = "."
     /\ RunLen(s, t + n + 1, Digit) = 2
     /\ t + n + 2 = Len(s)
  \/ /\ n >= 3
     /\ t + n - 1 = Len(s)
     /\ Ch(s, Len(s)) \in Digit
     /\ Ch(s, Len(s) - 1) \in Digit

\* the position of the group when it starts at t, 0 when it does not
ItemGroupAt(s, t) ==
  IF ItemAmountEnds(s, t, RunLen(s, t, DigitComma)) THEN t ELSE 0

\* \s+\$?([\d,]+\.?\d{2})$ at position q: the whitespace run (all of it: a
\* '$' or [\d,] must follow), a '$' if there is one, then the group. The
\* result is the position of the group, 0 when there is no match.
ItemTailAt(s, q) ==
  IF RunLen(s, q, Space) >= 1
  THEN ItemGroupAt(s, AfterDollar(s, After(s, q, Space)))
  ELSE 0

\* (.+?) is lazy: the length of the shortest prefix of at least one
\* character, none a line terminator, that the rest of the pattern can
\* follow; 0 when there is none
ShortestName(line) ==
  LET ks == {k \in 1..RunLenNot(line, 1, LineTerminator) :
               ItemTailAt(line, k + 1) > 0}
  IN IF ks = {} THEN 0 ELSE Min(ks)

\* the match whose first group has k characters
ItemMatch(line, k) ==
  IF k = 0 THEN NoMatch
  ELSE Match(line, Slice(line, 1, k),
             Slice(line, ItemTailAt(line, k + 1), Len(line)))

\* line.match(itemPattern)
matchItem(line) == ItemMatch(line, ShortestName(line))

(***************************************************************************)
(* ocrData: the object under construction. An exception that leaves        *)
(* parseReceiptText (a TypeError from reading a property of null) is the   *)
(* value Thrown in place of the object; a loop reached with it does        *)
(* nothing.                                                                *)
(***************************************************************************)
Thrown == [threw |-> "TypeError"]

threw(r) == "threw" \in DOMAIN r

\* ocrData.key = v
SetField(r, key, v) ==
  [k \in DOMAIN r \cup {key} |-> IF k = key THEN v ELSE r[k]]

Has(r, key) == key \in DOMAIN r

\* if (ocrData.total): undefined and 0 are falsy
TruthyNumber(r, key) == Has(r, key) /\ r[key] # 0

\* if (ocrData.date): undefined and '' are falsy
TruthyString(r, key) == Has(r, key) /\ r[key] # ""

(***************************************************************************)
(* merchant                                                                *)
(***************************************************************************)
\* the test with ">= 3" for "> 3"
IsMerchantLineFromThree(line) ==
  /\ Len(line) >= 3
  /\ Len(line) < 50
  /\ Ch(line, 1) \notin Digit
  /\ \E i \in 1..Len(line) : Ch(line, i) \in Upper

\* line.length > 3 && line.length < 50 && !line.match(/^\d/) && line.match(/[A-Z]/)
IsMerchantLine(line) ==
  /\ Len(line) > 3
  /\ Len(line) < 50
  /\ Ch(line, 1) \notin Digit
  /\ \E i \in 1..Len(line) : Ch(line, i) \in Upper

RECURSIVE findMerchant(_, _)
\* lines.find(...), from index i: the line, or "" for undefined (a line is
\* never empty)
findMerchant(lines, i) ==
  IF i > Len(lines) THEN ""
  ELSE IF IsMerchantLine(lines[i]) THEN lines[i]
       ELSE findMerchant(lines, i + 1)

\* if (merchantLine) ocrData.merchant = merchantLine
extractMerchant(lines, r) ==
  LET merchantLine == findMerchant(lines, 1)
  IN IF merchantLine # "" THEN SetField(r, "merchant", merchantLine) ELSE r

(***************************************************************************)
(* date                                                                    *)
(***************************************************************************)
RECURSIVE dateInner(_, _, _)
\* for (const pattern of datePatterns), from pattern k
dateInner(line, k, r) ==
  IF k > 3 THEN r
  ELSE LET match == matchDate(line, k)
       IN IF match.ok THEN SetField(r, "date", match.m0)
          ELSE dateInner(line, k + 1, r)

RECURSIVE dateLoopNoBreak(_, _, _)
\* the loop without its "if (ocrData.date) break": the last match wins
dateLoopNoBreak(lines, i, r) ==
  IF threw(r) \/ i > Len(lines) THEN r
  ELSE LET r2 == dateInner(lines[i], 1, r)
       IN IF threw(r2) THEN r2 ELSE dateLoopNoBreak(lines, i + 1, r2)

RECURSIVE dateLoop(_, _, _)
\* for (const line of lines), from line i
dateLoop(lines, i, r) ==
  IF threw(r) \/ i > Len(lines) THEN r
  ELSE LET r2 == dateInner(lines[i], 1, r)
       IN IF threw(r2) \/ TruthyString(r2, "date") THEN r2
          ELSE dateLoop(lines, i + 1, r2)

(***************************************************************************)
(* total, tax, subtotal                                                    *)
(***************************************************************************)
RECURSIVE amountInnerUnguarded(_, _, _, _, _)
\* the inner loop without its "if (match)": match[1] of null throws
amountInnerUnguarded(line, patterns, k, key, r) ==
  IF k > Len(patterns) THEN r
  ELSE LET match == matchAmount(line, patterns[k])
           value == parseFloat(removeCommas(match.m1))
       IN IF ~match.ok THEN Thrown
          ELSE IF ~isNaN(value) THEN SetField(r, key, value.val)
               ELSE amountInnerUnguarded(line, patterns, k + 1, key, r)

RECURSIVE amountInnerStopOnNaN(_, _, _, _, _)
\* the inner loop leaving the line at the first match, parsed or not
amountInnerStopOnNaN(line, patterns, k, key, r) ==
  IF k > Len(patterns) THEN r
  ELSE LET match == matchAmount(line, patterns[k])
           value == parseFloat(removeCommas(match.m1))
       IN IF match.ok
          THEN IF ~isNaN(value) THEN SetField(r, key, value.val) ELSE r
          ELSE amountInnerStopOnNaN(line, patterns, k + 1, key, r)

RECURSIVE amountInnerLastFirst(_, _, _, _, _)
\* the inner loop trying the patterns from the last of the list to the first
amountInnerLastFirst(line, patterns, k, key, r) ==
  IF k > Len(patterns) THEN r
  ELSE LET match == matchAmount(line, patterns[Len(patterns) + 1 - k])
           value == parseFloat(removeCommas(match.m1))
       IN IF match.ok /\ ~isNaN(value) THEN SetField(r, key, value.val)
          ELSE amountInnerLastFirst(line, patterns, k + 1, key, r)

RECURSIVE amountInner(_, _, _, _, _)
\* for (const pattern of patterns), from pattern k
amountInner(line, patterns, k, key, r) ==
  IF k > Len(patterns) THEN r
  ELSE LET match == matchAmount(line, patterns[k])
           value == parseFloat(removeCommas(match.m1))
       IN IF match.ok /\ ~isNaN(value) THEN SetField(r, key, value.val)
          ELSE amountInner(line, patterns, k + 1, key, r)

RECURSIVE amountLoop(_, _, _, _, _)
\* for (const line of lines), from line i; "if (ocrData.total) break"
amountLoop(lines, i, patterns, key, r) ==
  IF threw(r) \/ i > Len(lines) THEN r
  ELSE LET r2 == amountInner(lines[i], patterns, 1, key, r)
       IN IF threw(r2) \/ TruthyNumber(r2, key) THEN r2
          ELSE amountLoop(lines, i + 1, patterns, key, r2)

(***************************************************************************)
(* line items                                                              *)
(***************************************************************************)
ExcludedKeywords == {"total", "tax", "subtotal", "amount", "balance"}

\* the filter without the keywords
itemFilterNoKeywords(name, price, r) ==
  IF ~isNaN(price) /\ price.val > 0 /\ price.val < 10000 * 100
  THEN SetField(r, "items",
                Append(r.items, [name |-> name, price |-> price.val]))
  ELSE r

\* the filter with the keywords looked for in name, not in lowerName
itemFilterCaseSensitive(name, price, r) ==
  IF /\ ~isNaN(price) /\ price.val > 0 /\ price.val < 10000 * 100
     /\ \A w \in ExcludedKeywords : ~includes(name, w)
  THEN SetField(r, "items",
                Append(r.items, [name |-> name, price |-> price.val]))
  ELSE r

\* the filter with "price >= 0 && price <= 10000"
itemFilterClosedBounds(name, price, r) ==
  IF /\ ~isNaN(price) /\ price.val >= 0 /\ price.val <= 10000 * 100
     /\ \A w \in ExcludedKeywords : ~includes(toLowerCase(name), w)
  THEN SetField(r, "items",
                Append(r.items, [name |-> name, price |-> price.val]))
  ELSE r

\* if (!isNaN(price) && price > 0 && price < 10000) and none of the keywords
\* is in lowerName: ocrData.items.push({ name, price })
itemFilter(name, price, r) ==
  IF /\ ~isNaN(price) /\ price.val > 0 /\ price.val < 10000 * 100
     /\ \A w \in ExcludedKeywords : ~includes(toLowerCase(name), w)
  THEN SetField(r, "items",
                Append(r.items, [name |-> name, price |-> price.val]))
  ELSE r

\* if (match): name = match[1].trim(), price = parseFloat(priceStr)
itemMatched(match, r) ==
  IF match.ok
  THEN itemFilter(trim(match.m1), parseFloat(removeCommas(match.m2)), r)
  ELSE r

\* the body of the loop for one line
itemStep(line, r) == itemMatched(matchItem(line), r)

RECURSIVE itemLoopFirstOnly(_, _, _)
\* the loop with a break after the first item, as the single-valued fields
\* have
itemLoopFirstOnly(lines, i, r) ==
  IF threw(r) \/ i > Len(lines) THEN r
  ELSE LET r2 == itemStep(lines[i], r)
       IN IF threw(r2) \/ Len(r2.items) > 0 THEN r2
          ELSE itemLoopFirstOnly(lines, i + 1, r2)

RECURSIVE itemLoop(_, _, _)
\* for (const line of lines), from line i
itemLoop(lines, i, r) ==
  IF threw(r) \/ i > Len(lines) THEN r
  ELSE LET r2 == itemStep(lines[i], r)
       IN IF threw(r2) THEN r2 ELSE itemLoop(lines, i + 1, r2)

(***************************************************************************)
(* parseReceiptText                                                        *)
(***************************************************************************)
\* the object with raw_text: text.trim()
newRecordTrimmed(t) == [items |-> <<>>, raw_text |-> trim(t)]

\* the object with tax and subtotal defaulted to 0
newRecordWithDefaults(t) ==
  [items |-> <<>>, raw_text |-> t, tax |-> 0, subtotal |-> 0]

\* const ocrData = { items: [], raw_text: text }
newRecord(t) == [items |-> <<>>, raw_text |-> t]

parseReceiptText(t) ==
  LET lines == NormalizedLines(t)
      r0 == newRecord(t)
      r1 == extractMerchant(lines, r0)
      r2 == dateLoop(lines, 1, r1)
      r3 == amountLoop(lines, 1, totalPatterns, "total", r2)
      r4 == amountLoop(lines, 1, taxPatterns, "tax", r3)
      r5 == amountLoop(lines, 1, subtotalPatterns, "subtotal", r4)
  IN itemLoop(lines, 1, r5)

(***************************************************************************)
(* The inputs: the documents of the specification's scenarios, and every   *)
(* document of at most MaxLines raw lines drawn from LinePool.             *)
(***************************************************************************)
MaxLines == 2

LinePool ==
  { "", " \t", "QUICK MART", "ABC", "Ab$.",
    " Milk 3.99 ", "Bread 2.49\r", "Free Sample 0.00",
    "Serial Number 2024 99999.00", "Room 1234",
    "Pen 9999.99", "Car 10000.00", "123 Main St",
    "TOTAL: $20.49", "Total: 0.00", "Total: ,,",
    "Subtotal: $6.48", "Tax: $0.52", "GST 0", "vat 1.5",
    "04/12/2025", "Date: 1-2-25 2025/04/12", "2025-04-12", "Apr 12, 2025" }

\* lines of 49 and of 50 characters, for the merchant's length bound
LongLines ==
  { "XXXXXXXXXXXXXXXXXXXXXXXXXXXXXXXXXXXXXXXXXXXXXXXXX",
    "XXXXXXXXXXXXXXXXXXXXXXXXXXXXXXXXXXXXXXXXXXXXXXXXXX" }

RECURSIVE JoinLines(_)
\* the raw lines with a line feed between them
JoinLines(ls) ==
  IF ls = <<>> THEN ""
  ELSE IF Len(ls) = 1 THEN ls[1]
       ELSE ls[1] \o "\n" \o JoinLines(Tail(ls))

QuickMartText ==
  JoinLines(<<"QUICK MART", "04/12/2025", "Milk 3.99", "Bread 2.49",
              "Subtotal: $6.48", "Tax: $0.52", "Total: $7.00">>)

WidgetText ==
  JoinLines(<<"Widget A  $12.99", "Widget B 7.50", "TOTAL: $20.49">>)

AcmeText == JoinLines(<<"123456", "ACME HARDWARE STORE", "123 Main St">>)

\* single lines: a labelled date, and a total label with a capture of commas
\* followed by an amount label with a number
DateLineText == "Date: 04/12/2025"

CommasThenAmountText == "Total: ,, Amount 5.00"

\* two lines, each with two labels of one field, the label that is later in
\* the field's list first
PriorityText == JoinLines(<<"Balance 5.00 Total 7.00", "Vat 1.00 Tax 2.00">>)

\* amounts with thousands separators, one for each field and one item
ThousandsText ==
  JoinLines(<<"Total: $1,234.56", "Tax: 1,000.5", "Sub-total 2,345.00",
              "Laptop $1,234.56">>)

\* a line that ends in a vertical tab (U+000B), and one that has vertical
\* tabs between its name and its price
VerticalTabText == JoinLines(<<"ABC", "Milk3.99">>)

ScenarioTexts ==
  {QuickMartText, WidgetText, AcmeText, DateLineText, CommasThenAmountText,
   PriorityText, ThousandsText, VerticalTabText}

Inputs ==
  ScenarioTexts
  \cup {JoinLines(ls) : ls \in UNION {[1..n -> LinePool] : n \in 0..MaxLines}}
  \cup {JoinLines(<<a, b>>) : a \in LongLines, b \in LongLines \cup {"QUICK MART"}}

(***************************************************************************)
(* The OCR runs on one receipt: the row of the receipts table, the         *)
(* ReceiptDetails component with its useReceiptOCR hook, and the runs that *)
(* read, write or delete the row: a click on 'Extract Receipt Data'        *)
(* (handleProcessOCR and processReceipt, saving through PATCH              *)
(* /api/receipts/[id]/ocr-data, then onRefresh), a fetchInvoice of the     *)
(* page, and the requests POST /api/receipts/[id]/ocr, PATCH               *)
(* /api/receipts/[id]/ocr-data and DELETE /api/receipts/[id] of any        *)
(* client.  Every await is a step; what an awaited call answers is chosen  *)
(* by the step.  A PATCH request is handled in steps of its own, the       *)
(* handler's awaits, between the fetch that sends it and the step in which *)
(* that fetch settles; when the fetch rejects, the handler of the request  *)
(* goes on without a client.                                               *)
(*  - null is the record Null; a column or state that is null or a string  *)
(*    holds Null or Str(s).                                                *)
(*  - A thrown value is Err(m), an Error with message m, or NotAnError     *)
(*    (tesseract.js rejects with plain strings).                           *)
(***************************************************************************)
Null == [null |-> TRUE]

Str(s) == [str |-> s]

Err(m) == [isError |-> TRUE, message |-> m]

NotAnError == [isError |-> FALSE, message |-> "worker error"]

\* supabase/migrations/008: ocr_processed DEFAULT FALSE, ocr_data and
\* ocr_error NULL
NewReceipt == [ocr_processed |-> FALSE, ocr_data |-> Null, ocr_error |-> Null]

\* the table after the row has been deleted: no row with the id
NoRow == [deleted |-> TRUE]

\* the tables after the invoice of the receipt has been deleted: invoice_id
\* REFERENCES invoices(id) ON DELETE CASCADE has deleted the row with it
NoInvoice == [deleted |-> TRUE, cascade |-> TRUE]

\* the table has the row of the receipt
exists(row) == row \notin {NoRow, NoInvoice}

\* supabase .update(updateData).eq('id', id): the columns named are set, the
\* others kept; with no row of the id nothing is updated, which is no error
update(row, updateData) ==
  IF ~exists(row)
  THEN row
  ELSE [c \in DOMAIN row |->
          IF c \in DOMAIN updateData THEN updateData[c] ELSE row[c]]

\* PATCH: const updateData = ocrError ? {...} : {...}; a key of body.ocrData
\* that is undefined is not sent
patchUpdateData(body) ==
  IF "error" \in DOMAIN body /\ body.error # ""
  THEN [ocr_processed |-> TRUE, ocr_error |-> Str(body.error), ocr_data |-> Null]
  ELSE IF "ocrData" \in DOMAIN body
       THEN [ocr_processed |-> TRUE, ocr_data |-> body.ocrData, ocr_error |-> Null]
       ELSE [ocr_processed |-> TRUE, ocr_error |-> Null]

\* POST: the update of the success path
postUpdateData(data) ==
  [ocr_processed |-> TRUE, ocr_data |-> data, ocr_error |-> Null]

\* POST, catch: error instanceof Error ? error.message : 'Unknown error'
postErrorMessage(error) ==
  IF error.isError THEN error.message ELSE "Unknown error"

\* POST, catch: the update that saves the error
postErrorUpdateData(error) ==
  [ocr_processed |-> TRUE, ocr_error |-> Str(postErrorMessage(error))]

\* processReceipt, catch: err instanceof Error ? err.message : 'OCR
\* processing failed'
errorMessage(err) ==
  IF err.isError THEN err.message ELSE "OCR processing failed"

\* the component and the states of its hook: useState(false),
\* useState({status: 'idle', progress: 0}), useState(null); ocr_processed is
\* that of the component's prop receipt, the only column of the prop that
\* decides what a click does.  pdfSupport says which useReceiptOCR the
\* component is built with: that of lib/hooks/useReceiptOCR.ts, which hands
\* the signed URL to the engine, or the one that downloads the file first and
\* converts a PDF to an image; onRefresh says whether the optional prop is
\* given, as the page gives it.  The component is mounted while the page's
\* invoice has the receipt; instance counts the times it was mounted again
NewHook ==
  [processing |-> FALSE, status |-> "idle", progress |-> 0, error |-> Null,
   ocr_processed |-> NewReceipt.ocr_processed, pdfSupport |-> FALSE,
   onRefresh |-> TRUE, mounted |-> TRUE, instance |-> 0]

\* the components: either hook, with and without onRefresh
Components ==
  {[NewHook EXCEPT !.pdfSupport = p, !.onRefresh = o] : p, o \in BOOLEAN}

\* a run that has not started. text, data, err, worker, response and result
\* are the run's locals; requests are the run's PATCH requests on their way
\* through the handler; read is what the server has read for fetchInvoice;
\* instance is the component instance whose click started the run; pageLeft
\* says that the page whose fetchInvoice the run calls has been left; failed
\* and stored record what has happened to the run: a failure of the signed URL,
\* the download, the engine or the save, and the database having written the
\* run's data to the row
IdleRun ==
  [flow |-> "idle", at |-> "idle", text |-> "", data |-> Null, err |-> Null,
   worker |-> "none", response |-> Null, result |-> Null, requests |-> {},
   read |-> Null, instance |-> 0, pageLeft |-> FALSE, failed |-> FALSE,
   stored |-> FALSE]

\* the number of runs started, one after the other or together
MaxRuns == 2

\* the runs, in the order in which they start
Runs == 1..MaxRuns

\* run r is the next to start
next(r) == r = started + 1

\* the texts the OCR engine recognizes
OcrTexts == {WidgetText, "\n \t"}

\* parseReceiptText of the texts the engine recognizes
parsedText == [t \in OcrTexts |-> parseReceiptText(t)]

\* what a failing awaited call throws
Failures == {Err("Failed to fetch"), NotAnError}

\* fileBlob.type of the downloaded file
FileTypes == {"image/png", "application/pdf", "text/html"}

\* type.startsWith('image/')
isImageType(type) == Len(type) >= 6 /\ SubSeq(type, 1, 6) = "image/"

\* what tesseract.js tells the logger: a status and a progress, in tenths
LoggerMessages ==
  { [status |-> "loading tesseract core", progress |-> 5],
    [status |-> "initializing tesseract", progress |-> 10],
    [status |-> "recognizing text", progress |-> 5],
    [status |-> "recognizing text", progress |-> 10] }

\* Math.round(m.progress * k), m.progress in tenths
roundProgress(tenths, k) == (tenths * k + 5) \div 10

\* the logger handed to createWorker: setProgress for three of the statuses
logger(h, m) ==
  IF m.status = "recognizing text"
  THEN [h EXCEPT !.status = "Reading receipt...",
                 !.progress = IF h.pdfSupport
                              THEN 20 + roundProgress(m.progress, 70)
                              ELSE roundProgress(m.progress, 100)]
  ELSE IF m.status = "loading tesseract core"
  THEN [h EXCEPT !.status = "Loading OCR engine...",
                 !.progress = IF h.pdfSupport
                              THEN 10 + roundProgress(m.progress, 10)
                              ELSE roundProgress(m.progress, 50)]
  ELSE IF m.status = "initializing tesseract"
  THEN [h EXCEPT !.status = "Starting OCR...",
                 !.progress = IF h.pdfSupport
                              THEN 15 + roundProgress(m.progress, 5)
                              ELSE 50 + roundProgress(m.progress, 20)]
  ELSE h

\* response.ok of the response to request q
ok(q) == q.status = 200

\* a state setter called by run r: the states become h, unless the component
\* instance of the run is not mounted any more
setState(r, h) ==
  IF hook.mounted /\ hook.instance = runs[r].instance THEN h ELSE hook

\* fetch('/api/receipts/<id>/ocr-data', { method: 'PATCH', body }): the
\* request before the handler's first await; abandoned says that the fetch
\* has rejected
NewRequest(body) ==
  [body |-> body, at |-> "createClient", status |-> 0,
   abandoned |-> FALSE]

\* the request run r awaits
awaited(r) == {q \in runs[r].requests : ~q.abandoned}

\* the number of requests at a time whose fetch has rejected and whose
\* handler goes on
MaxAbandoned == 1

\* the requests whose fetch has rejected and whose handler goes on
abandoned == UNION {{<<r, q>> : q \in runs[r].requests \ awaited(r)} : r \in Runs}

\* the requests of run r after the fetch of q has settled without its
\* response being used: the handler has returned, or the fetch has rejected
\* and the request has not reached the handler or the handler goes on without
\* the client
rejected(r, q) ==
  LET rest == runs[r].requests \ {q}
  IN IF q.at = "answered"
     THEN {rest}
     ELSE (IF Cardinality(abandoned) < MaxAbandoned
           THEN {rest \cup {[q EXCEPT !.abandoned = TRUE]}}
           ELSE {})
            \cup (IF q.at = "createClient" THEN {rest} ELSE {})

(***************************************************************************)
(* A click: handleProcessOCR, then processReceipt.                         *)
(***************************************************************************)
\* the button is rendered while the prop is not processed and is disabled
\* while processing; its onClick is handleProcessOCR, which awaits the
\* signed URL
Click(r) ==
  /\ next(r)
  /\ hook.mounted
  /\ ~hook.ocr_processed
  /\ ~hook.processing
  /\ started' = started + 1
  /\ runs' = [runs EXCEPT ![r] = [IdleRun EXCEPT !.flow = "hook",
                                                 !.at = "signedUrl",
                                                 !.instance = hook.instance]]
  /\ UNCHANGED <<receipt, hook, parserVars, imageVars>>

\* the awaited createSignedUrl answers with urlError or without a URL (or
\* throws): handleProcessOCR logs and returns
SignedUrlFails(r) ==
  /\ runs[r].flow = "hook" /\ runs[r].at = "signedUrl"
  /\ runs' = [runs EXCEPT ![r].failed = TRUE, ![r].pageLeft = FALSE,
                           ![r].at = "done"]
  /\ UNCHANGED <<receipt, hook, started, parserVars, imageVars>>

\* the signed URL is there: processReceipt is called and runs to its first
\* await: createWorker, or with the download the fetch of the file
ProcessReceipt(r) ==
  /\ runs[r].flow = "hook" /\ runs[r].at = "signedUrl"
  /\ IF hook.pdfSupport
     THEN /\ hook' = setState(r, [hook EXCEPT !.processing = TRUE,
                                              !.error = Null,
                                              !.status = "Downloading receipt...",
                                              !.progress = 5])
          /\ runs' = [runs EXCEPT ![r].at = "fetchFile"]
     ELSE /\ hook' = setState(r, [hook EXCEPT !.processing = TRUE,
                                              !.error = Null,
                                              !.status = "Initializing OCR...",
                                              !.progress = 0])
          /\ runs' = [runs EXCEPT ![r].at = "createWorker"]
  /\ UNCHANGED <<receipt, started, parserVars, imageVars>>

\* the catch block up to its await: the message is set as the error, the
\* states are reset and the error is sent to the PATCH endpoint; left are
\* the requests the run has sent before
caught(r, err, left) ==
  /\ hook' = setState(r, [hook EXCEPT !.error = Str(errorMessage(err)),
                                      !.processing = FALSE,
                                      !.status = "idle", !.progress = 0])
  /\ runs' = [runs EXCEPT
                ![r].err = Str(errorMessage(err)),
                ![r].failed = TRUE,
                ![r].requests =
                  left \cup {NewRequest([error |-> errorMessage(err)])},
                ![r].at = "saveError"]

\* const fileResponse = await fetch(imageUrl), ok
FetchFile(r) ==
  /\ runs[r].flow = "hook" /\ runs[r].at = "fetchFile"
  /\ runs' = [runs EXCEPT ![r].at = "blob"]
  /\ UNCHANGED <<receipt, hook, started, parserVars, imageVars>>

\* the fetch of the file rejects, or answers not ok with the statusText
\* Forbidden
FetchFileFails(r) ==
  /\ runs[r].flow = "hook" /\ runs[r].at = "fetchFile"
  /\ \/ caught(r, Err("Failed to fetch"), {})
     \/ caught(r, Err("Failed to fetch file: Forbidden"), {})
  /\ UNCHANGED <<receipt, started, parserVars, imageVars>>

\* const fileBlob = await fileResponse.blob(): a PDF goes to pdfToImage and
\* its first await, an image to createWorker, another type throws; or blob()
\* rejects
Blob(r) ==
  /\ runs[r].flow = "hook" /\ runs[r].at = "blob"
  /\ \/ \E type \in FileTypes :
          IF type = "application/pdf"
          THEN /\ hook' = setState(r, [hook EXCEPT
                                         !.status = "Converting PDF to image...",
                                         !.progress = 8])
               /\ runs' = [runs EXCEPT ![r].at = "arrayBuffer"]
          ELSE IF isImageType(type)
          THEN /\ hook' = setState(r, [hook EXCEPT
                                         !.status = "Initializing OCR...",
                                         !.progress = 10])
               /\ runs' = [runs EXCEPT ![r].at = "createWorker"]
          ELSE caught(r, Err("Unsupported file type: " \o type
                             \o ". Please upload an image or PDF file."), {})
     \/ caught(r, Err("Failed to fetch"), {})
  /\ UNCHANGED <<receipt, started, parserVars, imageVars>>

\* the awaits of pdfToImage before the canvas is turned into a blob
pdfAwaits == <<"arrayBuffer", "getDocument", "getPage", "render", "toBlob">>

\* what pdf.js throws on a file it cannot read
InvalidPdf == Err("Invalid PDF structure.")

\* pdfToImage: await pdfBlob.arrayBuffer(), getDocument(...).promise,
\* pdf.getPage(1) and page.render(...).promise, each going on to the next
\* await; after getPage the canvas may have no 2d context
PdfStep(r) ==
  /\ runs[r].flow = "hook"
  /\ \E k \in 1..4 :
       /\ runs[r].at = pdfAwaits[k]
       /\ \/ /\ runs' = [runs EXCEPT ![r].at = pdfAwaits[k + 1]]
             /\ hook' = hook
          \/ /\ k = 3
             /\ caught(r, Err("Failed to get canvas context"), {})
  /\ UNCHANGED <<receipt, started, parserVars, imageVars>>

\* imageBlob = await pdfToImage(fileBlob): canvas.toBlob hands over the blob
PdfToImage(r) ==
  /\ runs[r].flow = "hook" /\ runs[r].at = "toBlob"
  /\ hook' = setState(r, [hook EXCEPT !.status = "Initializing OCR...",
                                      !.progress = 10])
  /\ runs' = [runs EXCEPT ![r].at = "createWorker"]
  /\ UNCHANGED <<receipt, started, parserVars, imageVars>>

\* pdfToImage rejects: an await of it rejects, or there is no canvas blob
PdfToImageFails(r) ==
  /\ runs[r].flow = "hook"
  /\ \/ /\ runs[r].at \in {pdfAwaits[k] : k \in 1..4}
        /\ caught(r, InvalidPdf, {})
     \/ /\ runs[r].at = "toBlob"
        /\ caught(r, Err("Failed to convert canvas to blob"), {})
  /\ UNCHANGED <<receipt, started, parserVars, imageVars>>

\* tesseract.js calls the logger while createWorker or recognize is pending:
\* the core and the engine are loaded by createWorker, the text is
\* recognized by recognize
Logger(r) ==
  /\ runs[r].flow = "hook" /\ runs[r].at \in {"createWorker", "recognize"}
  /\ \E m \in LoggerMessages :
       /\ (m.status = "recognizing text") = (runs[r].at = "recognize")
       /\ hook' = setState(r, logger(hook, m))
  /\ UNCHANGED <<receipt, runs, started, parserVars, imageVars>>

\* const worker = await createWorker(...)
CreateWorker(r) ==
  /\ runs[r].flow = "hook" /\ runs[r].at = "createWorker"
  /\ runs' = [runs EXCEPT ![r].worker = "created", ![r].at = "recognize"]
  /\ UNCHANGED <<receipt, hook, started, parserVars, imageVars>>

CreateWorkerFails(r) ==
  /\ runs[r].flow = "hook" /\ runs[r].at = "createWorker"
  /\ \E err \in Failures : caught(r, err, {})
  /\ UNCHANGED <<receipt, started, parserVars, imageVars>>

\* const { data: { text } } = await worker.recognize(...)
Recognize(r) ==
  /\ runs[r].flow = "hook" /\ runs[r].at = "recognize"
  /\ \E t \in OcrTexts :
       runs' = [runs EXCEPT ![r].text = t, ![r].at = "terminate"]
  /\ UNCHANGED <<receipt, hook, started, parserVars, imageVars>>

RecognizeFails(r) ==
  /\ runs[r].flow = "hook" /\ runs[r].at = "recognize"
  /\ \E err \in Failures : caught(r, err, {})
  /\ UNCHANGED <<receipt, started, parserVars, imageVars>>

\* await worker.terminate(); then the text is parsed and the PATCH with
\* { ocrData } is sent
Terminate(r) ==
  /\ runs[r].flow = "hook" /\ runs[r].at = "terminate"
  /\ hook' = setState(r, [hook EXCEPT !.status = "Saving results...",
                                      !.progress = 98])
  /\ runs' = [runs EXCEPT ![r].worker = "terminated",
                          ![r].data = parsedText[runs[r].text],
                          ![r].requests =
                            {NewRequest([ocrData |-> parsedText[runs[r].text]])},
                          ![r].at = "save"]
  /\ UNCHANGED <<receipt, started, parserVars, imageVars>>

TerminateFails(r) ==
  /\ runs[r].flow = "hook" /\ runs[r].at = "terminate"
  /\ \E err \in Failures : caught(r, err, {})
  /\ UNCHANGED <<receipt, started, parserVars, imageVars>>

\* processReceipt has returned: its locals are gone, and handleProcessOCR
\* goes on to await onRefresh(), the page's fetchInvoice and its fetch, when
\* the prop is given
returned(run, result, left) ==
  [run EXCEPT !.text = "", !.data = Null, !.err = Null,
              !.result = result, !.requests = left,
              !.pageLeft = hook.onRefresh /\ run.pageLeft,
              !.at = IF hook.onRefresh THEN "refresh" ELSE "done"]

\* the fetch of the PATCH with { ocrData } resolves with a response that is
\* ok: 'Complete!', processing false, return ocrData
Complete(r) ==
  /\ runs[r].flow = "hook" /\ runs[r].at = "save"
  /\ \E q \in awaited(r) :
       /\ q.at = "answered" /\ ok(q)
       /\ runs' = [runs EXCEPT ![r] =
                     returned(runs[r], runs[r].data, runs[r].requests \ {q})]
  /\ hook' = setState(r, [hook EXCEPT !.status = "Complete!",
                                      !.progress = 100,
                                      !.processing = FALSE])
  /\ UNCHANGED <<receipt, started, parserVars, imageVars>>

\* the fetch resolves with a response that is not ok: throw new
\* Error('Failed to save OCR data')
SaveFails(r) ==
  /\ runs[r].flow = "hook" /\ runs[r].at = "save"
  /\ \E q \in awaited(r) :
       /\ q.at = "answered" /\ ~ok(q)
       /\ caught(r, Err("Failed to save OCR data"), runs[r].requests \ {q})
  /\ UNCHANGED <<receipt, started, parserVars, imageVars>>

\* the fetch of the PATCH with { ocrData } rejects, wherever the handler of
\* the request is
SaveDataRejects(r) ==
  /\ runs[r].flow = "hook" /\ runs[r].at = "save"
  /\ \E q \in awaited(r) :
       \E left \in rejected(r, q) : caught(r, Err("Failed to fetch"), left)
  /\ UNCHANGED <<receipt, started, parserVars, imageVars>>

\* the fetch of the PATCH with { error: errorMessage } resolves with the
\* handler's response, or rejects as that of { ocrData } does and the
\* rejection is caught: the outcome is not looked at; return null
SaveError(r) ==
  /\ runs[r].flow = "hook" /\ runs[r].at = "saveError"
  /\ \E q \in awaited(r) :
       \E left \in rejected(r, q) :
         runs' = [runs EXCEPT ![r] = returned(runs[r], Null, left)]
  /\ UNCHANGED <<receipt, hook, started, parserVars, imageVars>>

(***************************************************************************)
(* fetchInvoice of the page: awaited by handleProcessOCR as onRefresh, and *)
(* called by the page's other handlers.                                    *)
(***************************************************************************)
\* what the server reads for GET /api/invoices/[id]: the receipt among the
\* receipts of the invoice, if the row is there
invoiceOf(row) ==
  IF exists(row) THEN [ocr_processed |-> row.ocr_processed] ELSE NoRow

\* the component is not rendered: its states are gone
unmounted(h) ==
  [NewHook EXCEPT !.pdfSupport = h.pdfSupport, !.onRefresh = h.onRefresh,
                  !.instance = h.instance, !.mounted = FALSE]

\* setInvoice(data): the component gets the row read as its prop; without
\* the receipt in the invoice it is unmounted, and with the receipt back a
\* new instance is mounted
setInvoice(h, read) ==
  IF read = NoRow
  THEN unmounted(h)
  ELSE IF h.mounted
  THEN [h EXCEPT !.ocr_processed = read.ocr_processed]
  ELSE [unmounted(h) EXCEPT !.mounted = TRUE,
                            !.instance = h.instance + 1,
                            !.ocr_processed = read.ocr_processed]

\* the run is one of the page: it is in fetchInvoice or will call it as
\* onRefresh
ofPage(run) ==
  /\ run.at \notin {"idle", "done"}
  /\ \/ run.flow = "page"
     \/ run.flow = "hook" /\ hook.onRefresh

\* fetchInvoice has returned
fetched(run) == [run EXCEPT !.read = Null, !.pageLeft = FALSE, !.at = "done"]

\* the page is mounted and its useEffect calls fetchInvoice, or one of its
\* handlers other than onRefresh does
FetchInvoice(r) ==
  /\ next(r)
  /\ started' = started + 1
  /\ runs' = [runs EXCEPT ![r] = [IdleRun EXCEPT !.flow = "page",
                                                 !.at = "refresh"]]
  /\ UNCHANGED <<receipt, hook, parserVars, imageVars>>

\* GET /api/invoices/[id]: the select of the invoice finds it, and the
\* handler goes on to select its line items and its receipts
RefreshSelect(r) ==
  /\ runs[r].flow \in {"hook", "page"} /\ runs[r].at = "refresh"
  /\ receipt # NoInvoice
  /\ runs' = [runs EXCEPT ![r].at = "receipts"]
  /\ UNCHANGED <<receipt, hook, started, parserVars, imageVars>>

\* const res = await fetch(`/api/invoices/${id}`), ok: the server has read
\* the receipts of the invoice
RefreshFetch(r) ==
  /\ runs[r].flow \in {"hook", "page"} /\ runs[r].at = "receipts"
  /\ runs' = [runs EXCEPT ![r].read = invoiceOf(receipt), ![r].at = "json"]
  /\ UNCHANGED <<receipt, hook, started, parserVars, imageVars>>

\* the fetch rejects or answers not ok, or res.json() rejects: the invoice
\* stays as it is; on 404, the answer when the select of the invoice fails
\* or finds none, router.push('/') leaves the page, which unmounts the
\* component, and the runs under way are those of a page that is no more
RefreshFails(r) ==
  /\ runs[r].flow \in {"hook", "page"}
  /\ runs[r].at \in {"refresh", "receipts", "json"}
  /\ \/ /\ runs' = [runs EXCEPT ![r] = fetched(runs[r])]
        /\ hook' = hook
     \/ /\ runs[r].at = "refresh"
        /\ hook' = unmounted(hook)
        /\ runs' = [q \in Runs |->
                      IF q = r THEN fetched(runs[r])
                      ELSE IF ofPage(runs[q])
                      THEN [runs[q] EXCEPT !.pageLeft = TRUE]
                      ELSE runs[q]]
  /\ UNCHANGED <<receipt, started, parserVars, imageVars>>

\* const data = await res.json(); setInvoice(data), which does nothing when
\* the page has been left
Refresh(r) ==
  /\ runs[r].flow \in {"hook", "page"} /\ runs[r].at = "json"
  /\ hook' = IF runs[r].pageLeft THEN hook
             ELSE setInvoice(hook, runs[r].read)
  /\ runs' = [runs EXCEPT ![r] = fetched(runs[r])]
  /\ UNCHANGED <<receipt, started, parserVars, imageVars>>

(***************************************************************************)
(* A request POST /api/receipts/[id]/ocr.                                  *)
(***************************************************************************)
\* the responses of the handlers
Unauthorized == [status |-> 401, error |-> "Unauthorized"]

NotFound == [status |-> 404, error |-> "Receipt not found"]

ServerError(m) == [status |-> 500, error |-> m]

Success(data) == [status |-> 200, success |-> TRUE, data |-> data]

\* the handler has rejected and has answered nothing itself
Rejected == [status |-> 500, rejected |-> TRUE]

\* the handler answers with the response
respond(r, response) ==
  runs' = [runs EXCEPT ![r].response = response, ![r].at = "done"]

\* the handler answers with the response after a failure
respondFailure(r, response) ==
  runs' = [runs EXCEPT ![r].response = response, ![r].failed = TRUE,
                       ![r].at = "done"]

\* the handler's await throws inside the try block
throws(r, err) ==
  runs' = [runs EXCEPT ![r].err = err, ![r].failed = TRUE, ![r].at = "catch"]

PostRequest(r) ==
  /\ next(r)
  /\ started' = started + 1
  /\ runs' = [runs EXCEPT ![r] = [IdleRun EXCEPT !.flow = "post",
                                                 !.at = "createClient"]]
  /\ UNCHANGED <<receipt, hook, parserVars, imageVars>>

\* const supabase = await createClient(), outside the try block
PostCreateClient(r) ==
  /\ runs[r].flow = "post" /\ runs[r].at = "createClient"
  /\ \/ runs' = [runs EXCEPT ![r].at = "params"]
     \/ respondFailure(r, Rejected)
  /\ UNCHANGED <<receipt, hook, started, parserVars, imageVars>>

\* const { id: receiptId } = await params
PostParams(r) ==
  /\ runs[r].flow = "post" /\ runs[r].at = "params"
  /\ \/ runs' = [runs EXCEPT ![r].at = "getUser"]
     \/ respondFailure(r, Rejected)
  /\ UNCHANGED <<receipt, hook, started, parserVars, imageVars>>

\* await supabase.auth.getUser(), outside the try block: no user is answered
\* with 401
PostGetUser(r) ==
  /\ runs[r].flow = "post" /\ runs[r].at = "getUser"
  /\ \/ runs' = [runs EXCEPT ![r].at = "select"]
     \/ respond(r, Unauthorized)
     \/ respondFailure(r, Rejected)
  /\ UNCHANGED <<receipt, hook, started, parserVars, imageVars>>

\* the select of the receipt: no row, or a row of another user, is answered
\* with 404; a select that rejects is caught
PostSelect(r) ==
  /\ runs[r].flow = "post" /\ runs[r].at = "select"
  /\ \/ /\ exists(receipt)
        /\ runs' = [runs EXCEPT ![r].at = "createSignedUrl"]
     \/ respond(r, NotFound)
     \/ throws(r, Err("Failed to fetch"))
  /\ UNCHANGED <<receipt, hook, started, parserVars, imageVars>>

\* createSignedUrl: no signed URL is answered with 500, a call that rejects
\* is caught
PostCreateSignedUrl(r) ==
  /\ runs[r].flow = "post" /\ runs[r].at = "createSignedUrl"
  /\ \/ runs' = [runs EXCEPT ![r].at = "fetch"]
     \/ respondFailure(r, ServerError("Failed to access receipt file"))
     \/ throws(r, Err("Failed to fetch"))
  /\ UNCHANGED <<receipt, hook, started, parserVars, imageVars>>

\* the download of the image: a response that is not ok is answered with
\* 500, a fetch that rejects is caught
PostFetch(r) ==
  /\ runs[r].flow = "post" /\ runs[r].at = "fetch"
  /\ \/ runs' = [runs EXCEPT ![r].at = "arrayBuffer"]
     \/ respondFailure(r, ServerError("Failed to download receipt"))
     \/ throws(r, Err("Failed to fetch"))
  /\ UNCHANGED <<receipt, hook, started, parserVars, imageVars>>

\* const imageBuffer = await imageResponse.arrayBuffer()
PostArrayBuffer(r) ==
  /\ runs[r].flow = "post" /\ runs[r].at = "arrayBuffer"
  /\ \/ runs' = [runs EXCEPT ![r].at = "recognize"]
     \/ throws(r, Err("Failed to fetch"))
  /\ UNCHANGED <<receipt, hook, started, parserVars, imageVars>>

\* await Tesseract.recognize(...), then the text is parsed and the update is
\* sent
PostRecognize(r) ==
  /\ runs[r].flow = "post" /\ runs[r].at = "recognize"
  /\ \E t \in OcrTexts :
       runs' = [runs EXCEPT ![r].text = t,
                            ![r].data = parsedText[t],
                            ![r].at = "update"]
  /\ UNCHANGED <<receipt, hook, started, parserVars, imageVars>>

PostRecognizeFails(r) ==
  /\ runs[r].flow = "post" /\ runs[r].at = "recognize"
  /\ \E err \in Failures : throws(r, err)
  /\ UNCHANGED <<receipt, hook, started, parserVars, imageVars>>

\* the update of the success path is done by the database
PostUpdate(r) ==
  /\ runs[r].flow = "post" /\ runs[r].at = "update"
  /\ receipt' = update(receipt, postUpdateData(runs[r].data))
  /\ runs' = [runs EXCEPT ![r].stored = exists(receipt), ![r].at = "updated"]
  /\ UNCHANGED <<hook, started, parserVars, imageVars>>

\* the update of the success path fails: updateError, or the update rejects
\* and is caught
PostUpdateFails(r) ==
  /\ runs[r].flow = "post" /\ runs[r].at = "update"
  /\ \/ runs' = [runs EXCEPT ![r].failed = TRUE, ![r].at = "updateError"]
     \/ throws(r, Err("Failed to fetch"))
  /\ UNCHANGED <<receipt, hook, started, parserVars, imageVars>>

\* return NextResponse.json({ success: true, data: ocrData })
PostSuccess(r) ==
  /\ runs[r].flow = "post" /\ runs[r].at = "updated"
  /\ respond(r, Success(runs[r].data))
  /\ UNCHANGED <<receipt, hook, started, parserVars, imageVars>>

\* if (updateError) return ... 'Failed to save OCR data', 500
PostSaveFailed(r) ==
  /\ runs[r].flow = "post" /\ runs[r].at = "updateError"
  /\ respond(r, ServerError("Failed to save OCR data"))
  /\ UNCHANGED <<receipt, hook, started, parserVars, imageVars>>

\* catch: the update that saves the error is done, or fails unnoticed, or
\* rejects and the handler with it
PostCatch(r) ==
  /\ runs[r].flow = "post" /\ runs[r].at = "catch"
  /\ \/ /\ receipt' = update(receipt, postErrorUpdateData(runs[r].err))
        /\ runs' = [runs EXCEPT ![r].at = "caught"]
     \/ /\ receipt' = receipt
        /\ runs' = [runs EXCEPT ![r].at = "caught"]
     \/ /\ receipt' = receipt
        /\ respondFailure(r, Rejected)
  /\ UNCHANGED <<hook, started, parserVars, imageVars>>

\* catch: the response 'OCR processing failed', 500
PostFailed(r) ==
  /\ runs[r].flow = "post" /\ runs[r].at = "caught"
  /\ respond(r, ServerError("OCR processing failed"))
  /\ UNCHANGED <<receipt, hook, started, parserVars, imageVars>>

(***************************************************************************)
(* PATCH /api/receipts/[id]/ocr-data: the requests of the hook and of any  *)
(* other client, and the handler's awaits on a request.                    *)
(***************************************************************************)
\* the bodies of the requests, { ocrData?: ReceiptOCRData, error?: string }:
\* a record, an error, an empty error, and a record with an error
PatchBodies ==
  { [ocrData |-> parsedText[WidgetText]],
    [error |-> "Failed to fetch"],
    [error |-> ""],
    [ocrData |-> parsedText[WidgetText], error |-> "Failed to fetch"] }

\* a client other than the hook sends a request; the run keeps the body as
\* its data
PatchRequest(r) ==
  /\ next(r)
  /\ started' = started + 1
  /\ \E body \in PatchBodies :
       runs' = [runs EXCEPT ![r] = [IdleRun EXCEPT !.flow = "patch",
                                                   !.at = "request",
                                                   !.data = body,
                                                   !.requests = {NewRequest(body)}]]
  /\ UNCHANGED <<receipt, hook, parserVars, imageVars>>

\* the requests of run r whose handler is at the await
handlerAt(r, await) == {q \in runs[r].requests : q.at = await}

\* the handler of request q goes on to its next await
goesOn(r, q, await) ==
  runs' = [runs EXCEPT ![r].requests = (@ \ {q}) \cup {[q EXCEPT !.at = await]}]

\* what becomes of request q when its handler returns the response, or
\* rejects: the response is there for the fetch that awaits it; a request
\* whose fetch has rejected is over
answered(q, response) ==
  IF q.abandoned
  THEN {}
  ELSE {[q EXCEPT !.at = "answered", !.status = response]}

\* the handler of request q returns its response, or rejects
respondWith(r, q, response) ==
  runs' = [runs EXCEPT ![r].requests = (@ \ {q}) \cup answered(q, response)]

\* const supabase = await createClient(), outside the try block: a rejection
\* is the handler's
PatchCreateClient(r) ==
  /\ \E q \in handlerAt(r, "createClient") :
       \/ goesOn(r, q, "params")
       \/ respondWith(r, q, 500)
  /\ UNCHANGED <<receipt, hook, started, parserVars, imageVars>>

\* const { id } = await params
PatchParams(r) ==
  /\ \E q \in handlerAt(r, "params") :
       \/ goesOn(r, q, "getUser")
       \/ respondWith(r, q, 500)
  /\ UNCHANGED <<receipt, hook, started, parserVars, imageVars>>

\* await supabase.auth.getUser(), outside the try block: no user is answered
\* with 401
PatchGetUser(r) ==
  /\ \E q \in handlerAt(r, "getUser") :
       \/ goesOn(r, q, "json")
       \/ respondWith(r, q, 401)
       \/ respondWith(r, q, 500)
  /\ UNCHANGED <<receipt, hook, started, parserVars, imageVars>>

\* const body = await request.json(): a body that is no JSON is caught and
\* answered with 500, 'Internal server error'
PatchJson(r) ==
  /\ \E q \in handlerAt(r, "json") :
       \/ goesOn(r, q, "select")
       \/ respondWith(r, q, 500)
  /\ UNCHANGED <<receipt, hook, started, parserVars, imageVars>>

\* the select of the receipt: no row, or a row of another user, is answered
\* with 404; a select that rejects is caught and answered with 500
PatchSelect(r) ==
  /\ \E q \in handlerAt(r, "select") :
       \/ /\ exists(receipt)
          /\ goesOn(r, q, "update")
       \/ respondWith(r, q, 404)
       \/ respondWith(r, q, 500)
  /\ UNCHANGED <<receipt, hook, started, parserVars, imageVars>>

\* the update is done by the database and success is answered
PatchUpdate(r) ==
  /\ \E q \in handlerAt(r, "update") :
       LET updateData == patchUpdateData(q.body)
       IN /\ receipt' = update(receipt, updateData)
          /\ runs' = [runs EXCEPT
                        ![r].requests =
                          (@ \ {q}) \cup answered(q, 200),
                        ![r].stored = \/ runs[r].stored
                                      \/ /\ exists(receipt)
                                         /\ "ocr_data" \in DOMAIN updateData
                                         /\ updateData.ocr_data # Null]
  /\ UNCHANGED <<hook, started, parserVars, imageVars>>

\* the update fails: updateError is answered with 500, as is an update that
\* rejects and is caught
PatchUpdateFails(r) ==
  /\ \E q \in handlerAt(r, "update") : respondWith(r, q, 500)
  /\ UNCHANGED <<receipt, hook, started, parserVars, imageVars>>

\* the response reaches the client that is not the hook
PatchResponse(r) ==
  /\ runs[r].flow = "patch" /\ runs[r].at = "request"
  /\ \E q \in awaited(r) :
       /\ q.at = "answered"
       /\ runs' = [runs EXCEPT ![r].response = [status |-> q.status],
                               ![r].requests = {},
                               ![r].at = "done"]
  /\ UNCHANGED <<receipt, hook, started, parserVars, imageVars>>

(***************************************************************************)
(* A request DELETE /api/receipts/[id].                                    *)
(***************************************************************************)
\* the awaits of the handler before the row is deleted
deleteAwaits == <<"createClient", "params", "getUser", "select", "remove",
                  "delete">>

DeleteRequest(r) ==
  /\ next(r)
  /\ started' = started + 1
  /\ runs' = [runs EXCEPT ![r] = [IdleRun EXCEPT !.flow = "delete",
                                                 !.at = "createClient"]]
  /\ UNCHANGED <<receipt, hook, parserVars, imageVars>>

\* await createClient(), params, auth.getUser(), the select of storage_path
\* and storage.remove, each going on to the next await: outside the try
\* block an await that rejects is the handler's rejection, inside it is
\* caught and answered with 500; no user is answered with 401 and no row
\* with 404; an error of remove is only warned about
DeleteStep(r) ==
  /\ runs[r].flow = "delete"
  /\ \E k \in 1..5 :
       /\ runs[r].at = deleteAwaits[k]
       /\ \/ /\ k = 4 => exists(receipt)
             /\ runs' = [runs EXCEPT ![r].at = deleteAwaits[k + 1]]
          \/ /\ k \in {1, 2, 3}
             /\ respond(r, Rejected)
          \/ /\ k = 3
             /\ respond(r, Unauthorized)
          \/ /\ k = 4
             /\ respond(r, NotFound)
          \/ /\ k \in {4, 5}
             /\ respond(r, ServerError("Internal server error"))
  /\ UNCHANGED <<receipt, hook, started, parserVars, imageVars>>

\* the row is deleted by the database and success is answered; deleting no
\* row is no error
DeleteRow(r) ==
  /\ runs[r].flow = "delete" /\ runs[r].at = "delete"
  /\ receipt' = IF exists(receipt) THEN NoRow ELSE receipt
  /\ respond(r, [status |-> 200, success |-> TRUE])
  /\ UNCHANGED <<hook, started, parserVars, imageVars>>

\* the delete fails: deleteError is answered with 500, as is a delete that
\* rejects and is caught
DeleteRowFails(r) ==
  /\ runs[r].flow = "delete" /\ runs[r].at = "delete"
  /\ \/ respond(r, ServerError("Failed to delete receipt"))
     \/ respond(r, ServerError("Internal server error"))
  /\ UNCHANGED <<receipt, hook, started, parserVars, imageVars>>

(***************************************************************************)
(* A request DELETE /api/invoices/[id] on the invoice of the receipt.      *)
(***************************************************************************)
DeleteInvoiceRequest(r) ==
  /\ next(r)
  /\ started' = started + 1
  /\ runs' = [runs EXCEPT ![r] = [IdleRun EXCEPT !.flow = "deleteInvoice",
                                                 !.at = "createClient"]]
  /\ UNCHANGED <<receipt, hook, parserVars, imageVars>>

\* await createClient(), params, auth.getUser(), the select of the
\* receipts' storage paths and storage.remove, each going on to the next
\* await: remove is called only when the select gives receipts, and what
\* the select and remove answer besides is not looked at; outside the try
\* block an await that rejects is the handler's rejection, inside it is
\* caught and answered with 500; no user is answered with 401
DeleteInvoiceStep(r) ==
  /\ runs[r].flow = "deleteInvoice"
  /\ \E k \in 1..5 :
       /\ runs[r].at = deleteAwaits[k]
       /\ \/ /\ k = 4 => exists(receipt)
             /\ runs' = [runs EXCEPT ![r].at = deleteAwaits[k + 1]]
          \/ /\ k = 4
             /\ runs' = [runs EXCEPT ![r].at = "delete"]
          \/ /\ k \in {1, 2, 3}
             /\ respond(r, Rejected)
          \/ /\ k = 3
             /\ respond(r, Unauthorized)
          \/ /\ k \in {4, 5}
             /\ respond(r, ServerError("Internal server error"))
  /\ UNCHANGED <<receipt, hook, started, parserVars, imageVars>>

\* the invoice is deleted by the database, the rows of its receipts with
\* it, and success is answered; deleting no invoice is no error
DeleteInvoice(r) ==
  /\ runs[r].flow = "deleteInvoice" /\ runs[r].at = "delete"
  /\ receipt' = NoInvoice
  /\ respond(r, [status |-> 200, success |-> TRUE])
  /\ UNCHANGED <<hook, started, parserVars, imageVars>>

\* the delete fails: deleteError is answered with 500, as is a delete that
\* rejects and is caught
DeleteInvoiceFails(r) ==
  /\ runs[r].flow = "deleteInvoice" /\ runs[r].at = "delete"
  /\ \/ respond(r, ServerError("Failed to delete invoice"))
     \/ respond(r, ServerError("Internal server error"))
  /\ UNCHANGED <<receipt, hook, started, parserVars, imageVars>>

(***************************************************************************)
(* OCRImages (src/lib/pdf/OCRImages.ts): one worker per image, the tasks   *)
(* in parallel, the texts indexed by page.  Every await of a task is a     *)
(* step; the tasks' steps interleave in any order.                         *)
(***************************************************************************)
\* the number of images of a call
MaxImages == 2

ImageUrls == {"data:a", "data:b"}

\* the text the engine recognizes in an image
PageText == [u \in ImageUrls |-> "text of " \o u]

\* a task of urls.map(async (url) => ...), created and running to its first
\* await, createWorker. rank is the task's place in the order in which the
\* tasks settle (0: not settled), threw says its try block has thrown
NewTask ==
  [at |-> "createWorker", worker |-> "none", text |-> "", threw |-> FALSE,
   rank |-> 0]

\* ToString of a number that is used as a property key: its decimal digits
RECURSIVE toPropertyKey(_)
toPropertyKey(n) ==
  IF n < 10
  THEN Ch("0123456789", n + 1)
  ELSE toPropertyKey(n \div 10) \o Ch("0123456789", (n % 10) + 1)

\* [index + 1]: the property name of the page of texts[index], i = index + 1
pageKey(i) == toPropertyKey(i)

\* the number of tasks settled
Settled(ts) == Cardinality({i \in DOMAIN ts : ts[i].rank > 0})

\* a task settles, fulfilled or rejected
settle(task, how) == [task EXCEPT !.at = how, !.rank = Settled(tasks) + 1]

\* the texts in the order in which the tasks have settled
textsBySettlement(ts) ==
  [k \in DOMAIN ts |-> ts[CHOOSE i \in DOMAIN ts : ts[i].rank = k].text]

\* const texts = await Promise.all(promises): the texts in the order of the
\* promises
texts(ts) == [i \in DOMAIN ts |-> ts[i].text]

\* texts.reduce((acc, text, index) => ({ ...acc, [index + 1]: text }), {})
pageIndexed(t) ==
  [k \in {pageKey(i) : i \in DOMAIN t} |->
     t[CHOOSE i \in DOMAIN t : pageKey(i) = k]]

\* no call of OCRImages
NoImages ==
  /\ urls = <<>>
  /\ tasks = <<>>
  /\ progress = [total |-> 0, current |-> 0]
  /\ calls = <<>>
  /\ images = [at |-> "idle", result |-> Null]

\* OCRImages(urls, options) runs to await Promise.all(promises): onStart is
\* called, progress is created and every task is started
OCRImages ==
  /\ images.at = "called"
  /\ calls' = Append(calls, [fn |-> "onStart", current |-> 0,
                             total |-> Len(urls)])
  /\ progress' = [total |-> Len(urls), current |-> 0]
  /\ tasks' = [i \in 1..Len(urls) |-> NewTask]
  /\ images' = [images EXCEPT !.at = "awaiting"]
  /\ UNCHANGED <<urls, parserVars, flowVars>>

\* const worker = await createWorker(language), then setParameters is called
TaskCreateWorker(i) ==
  /\ i \in DOMAIN tasks
  /\ tasks[i].at = "createWorker"
  /\ tasks' = [tasks EXCEPT ![i].worker = "created", ![i].at = "setParameters"]
  /\ UNCHANGED <<urls, progress, calls, images, parserVars, flowVars>>

\* createWorker rejects, outside the try: the task is rejected
TaskCreateWorkerFails(i) ==
  /\ i \in DOMAIN tasks
  /\ tasks[i].at = "createWorker"
  /\ tasks' = [tasks EXCEPT ![i] = settle(tasks[i], "rejected")]
  /\ UNCHANGED <<urls, progress, calls, images, parserVars, flowVars>>

\* await worker.setParameters(...), then recognize is called
TaskSetParameters(i) ==
  /\ i \in DOMAIN tasks
  /\ tasks[i].at = "setParameters"
  /\ tasks' = [tasks EXCEPT ![i].at = "recognize"]
  /\ UNCHANGED <<urls, progress, calls, images, parserVars, flowVars>>

\* the task without its finally block: what the try block throws rejects the
\* task at once
TaskThrowsNoFinally(i) ==
  /\ i \in DOMAIN tasks
  /\ tasks[i].at \in {"setParameters", "recognize"}
  /\ tasks' = [tasks EXCEPT ![i] =
                 settle([tasks[i] EXCEPT !.threw = TRUE], "rejected")]
  /\ UNCHANGED <<urls, progress, calls, images, parserVars, flowVars>>

\* setParameters or recognize rejects: finally, terminate is called
TaskThrows(i) ==
  /\ i \in DOMAIN tasks
  /\ tasks[i].at \in {"setParameters", "recognize"}
  /\ tasks' = [tasks EXCEPT ![i].threw = TRUE, ![i].at = "terminate"]
  /\ UNCHANGED <<urls, progress, calls, images, parserVars, flowVars>>

\* const { data: { text } } = await worker.recognize(url); progress.current
\* += 1; onProgress(progress); return text: finally, terminate is called.
\* onProgress is given the progress object itself; calls records the values
\* it has at the call
TaskRecognize(i) ==
  /\ i \in DOMAIN tasks
  /\ tasks[i].at = "recognize"
  /\ tasks' = [tasks EXCEPT ![i].text = PageText[urls[i]],
                            ![i].at = "terminate"]
  /\ progress' = [progress EXCEPT !.current = progress.current + 1]
  /\ calls' = Append(calls, [fn |-> "onProgress",
                             current |-> progress.current + 1,
                             total |-> progress.total])
  /\ UNCHANGED <<urls, images, parserVars, flowVars>>

\* await worker.terminate(): the task is fulfilled with its text, or
\* rejected with what its try block threw
TaskTerminate(i) ==
  /\ i \in DOMAIN tasks
  /\ tasks[i].at = "terminate"
  /\ tasks' = [tasks EXCEPT ![i] =
                 settle([tasks[i] EXCEPT !.worker = "terminated"],
                        IF tasks[i].threw THEN "rejected" ELSE "fulfilled")]
  /\ UNCHANGED <<urls, progress, calls, images, parserVars, flowVars>>

\* terminate rejects: the task is rejected
TaskTerminateFails(i) ==
  /\ i \in DOMAIN tasks
  /\ tasks[i].at = "terminate"
  /\ tasks' = [tasks EXCEPT ![i] = settle(tasks[i], "rejected")]
  /\ UNCHANGED <<urls, progress, calls, images, parserVars, flowVars>>

\* Promise.all is fulfilled when every task is: the page-indexed object is
\* returned
Resolve ==
  /\ images.at = "awaiting"
  /\ \A i \in DOMAIN tasks : tasks[i].at = "fulfilled"
  /\ images' = [at |-> "resolved", result |-> pageIndexed(texts(tasks))]
  /\ UNCHANGED <<urls, tasks, progress, calls, parserVars, flowVars>>

\* Promise.all is rejected as soon as a task is: OCRImages rejects, the
\* other tasks go on
Reject ==
  /\ images.at = "awaiting"
  /\ \E i \in DOMAIN tasks : tasks[i].at = "rejected"
  /\ images' = [images EXCEPT !.at = "rejected"]
  /\ UNCHANGED <<urls, tasks, progress, calls, parserVars, flowVars>>

(***************************************************************************)
(* The state machine: one call of parseReceiptText on the text.            *)
(***************************************************************************)
Undefined == [undefined |-> TRUE]

\* no run on the receipt
NoRuns ==
  /\ receipt = NewReceipt
  /\ runs = [r \in Runs |-> IdleRun]
  /\ hook = NewHook
  /\ started = 0

Init ==
  /\ text \in Inputs
  /\ pc = "call"
  /\ ocrData = Undefined
  /\ NoRuns
  /\ NoImages

\* const ocrData = parseReceiptText(text)
ParseReceiptText ==
  /\ pc = "call"
  /\ LET r == parseReceiptText(text)
     IN /\ ocrData' = r
        /\ pc' = IF threw(r) THEN "threw" ELSE "returned"
  /\ UNCHANGED <<text, flowVars, imageVars>>

Next == ParseReceiptText

Spec == Init /\ [][Next]_vars

(***************************************************************************)
(* The state machine of the OCR runs on the receipt.                       *)
(***************************************************************************)
\* no call of parseReceiptText
NoCall ==
  /\ text = ""
  /\ pc = "none"
  /\ ocrData = Undefined

\* the component is built with one useReceiptOCR or the other, with or
\* without onRefresh
OcrInit ==
  /\ NoCall
  /\ NoImages
  /\ receipt = NewReceipt
  /\ runs = [r \in Runs |-> IdleRun]
  /\ hook \in Components
  /\ started = 0

OcrNext ==
  \E r \in Runs :
    \/ Click(r)
    \/ SignedUrlFails(r)
    \/ ProcessReceipt(r)
    \/ FetchFile(r)
    \/ FetchFileFails(r)
    \/ Blob(r)
    \/ PdfStep(r)
    \/ PdfToImage(r)
    \/ PdfToImageFails(r)
    \/ Logger(r)
    \/ CreateWorker(r)
    \/ CreateWorkerFails(r)
    \/ Recognize(r)
    \/ RecognizeFails(r)
    \/ Terminate(r)
    \/ TerminateFails(r)
    \/ Complete(r)
    \/ SaveFails(r)
    \/ SaveDataRejects(r)
    \/ SaveError(r)
    \/ FetchInvoice(r)
    \/ RefreshFetch(r)
    \/ RefreshFails(r)
    \/ Refresh(r)
    \/ RefreshSelect(r)
    \/ PostRequest(r)
    \/ PostCreateClient(r)
    \/ PostParams(r)
    \/ PostGetUser(r)
    \/ PostSelect(r)
    \/ PostCreateSignedUrl(r)
    \/ PostFetch(r)
    \/ PostArrayBuffer(r)
    \/ PostRecognize(r)
    \/ PostRecognizeFails(r)
    \/ PostUpdate(r)
    \/ PostUpdateFails(r)
    \/ PostSuccess(r)
    \/ PostSaveFailed(r)
    \/ PostCatch(r)
    \/ PostFailed(r)
    \/ PatchRequest(r)
    \/ PatchCreateClient(r)
    \/ PatchParams(r)
    \/ PatchGetUser(r)
    \/ PatchJson(r)
    \/ PatchSelect(r)
    \/ PatchUpdate(r)
    \/ PatchUpdateFails(r)
    \/ PatchResponse(r)
    \/ DeleteRequest(r)
    \/ DeleteStep(r)
    \/ DeleteRow(r)
    \/ DeleteRowFails(r)
    \/ DeleteInvoiceRequest(r)
    \/ DeleteInvoiceStep(r)
    \/ DeleteInvoice(r)
    \/ DeleteInvoiceFails(r)

SpecOcr == OcrInit /\ [][OcrNext]_vars

(***************************************************************************)
(* The state machine of the requests to the endpoints alone: the POST, the *)
(* PATCH and the DELETE requests of any clients on the receipt, and the    *)
(* DELETE requests on its invoice.                                         *)
(***************************************************************************)
ApiInit == OcrInit /\ hook = NewHook

ApiNext ==
  \E r \in Runs :
    \/ PostRequest(r)
    \/ PostCreateClient(r)
    \/ PostParams(r)
    \/ PostGetUser(r)
    \/ PostSelect(r)
    \/ PostCreateSignedUrl(r)
    \/ PostFetch(r)
    \/ PostArrayBuffer(r)
    \/ PostRecognize(r)
    \/ PostRecognizeFails(r)
    \/ PostUpdate(r)
    \/ PostUpdateFails(r)
    \/ PostSuccess(r)
    \/ PostSaveFailed(r)
    \/ PostCatch(r)
    \/ PostFailed(r)
    \/ PatchRequest(r)
    \/ PatchCreateClient(r)
    \/ PatchParams(r)
    \/ PatchGetUser(r)
    \/ PatchJson(r)
    \/ PatchSelect(r)
    \/ PatchUpdate(r)
    \/ PatchUpdateFails(r)
    \/ PatchResponse(r)
    \/ DeleteRequest(r)
    \/ DeleteStep(r)
    \/ DeleteRow(r)
    \/ DeleteRowFails(r)
    \/ DeleteInvoiceRequest(r)
    \/ DeleteInvoiceStep(r)
    \/ DeleteInvoice(r)
    \/ DeleteInvoiceFails(r)

SpecApi == ApiInit /\ [][ApiNext]_vars

(***************************************************************************)
(* The state machine of one call of OCRImages.                             *)
(***************************************************************************)
ImagesInit ==
  /\ NoCall
  /\ NoRuns
  /\ urls \in UNION {[1..n -> ImageUrls] : n \in 0..MaxImages}
  /\ tasks = <<>>
  /\ progress = [total |-> 0, current |-> 0]
  /\ calls = <<>>
  /\ images = [at |-> "called", result |-> Null]

ImagesNext ==
  \/ OCRImages
  \/ \E i \in 1..MaxImages :
       \/ TaskCreateWorker(i)
       \/ TaskCreateWorkerFails(i)
       \/ TaskSetParameters(i)
       \/ TaskThrows(i)
       \/ TaskRecognize(i)
       \/ TaskTerminate(i)
       \/ TaskTerminateFails(i)
  \/ Resolve
  \/ Reject

SpecImages == ImagesInit /\ [][ImagesNext]_vars

\* the steps of the task of image i
TaskStep(i) ==
  \/ TaskCreateWorker(i)
  \/ TaskCreateWorkerFails(i)
  \/ TaskSetParameters(i)
  \/ TaskThrows(i)
  \/ TaskRecognize(i)
  \/ TaskTerminate(i)
  \/ TaskTerminateFails(i)

\* every awaited call settles and the event loop runs the continuation: a
\* task that can take a step takes one, whatever has become of the other
\* tasks and of Promise.all
ImagesFairness == \A i \in 1..MaxImages : WF_vars(TaskStep(i))

SpecImagesFair == SpecImages /\ ImagesFairness

(***************************************************************************)
(* Properties.                                                             *)
(***************************************************************************)
Returned == pc = "returned"

\* the normalized lines of the document
Lines == NormalizedLines(text)

RecordKeys ==
  {"merchant", "date", "total", "tax", "subtotal", "items", "raw_text"}

IsList(x) == DOMAIN x = 1..Len(x)

\* the element of the set of indices Q that has j - 1 elements of Q below it
Nth(Q, j) == CHOOSE i \in Q : Cardinality({x \in Q : x < i}) = j - 1

\* C1: parseReceiptText on the seven-line QUICK MART document returns
\* merchant 'QUICK MART', date '04/12/2025', subtotal 6.48, tax 0.52, total
\* 7.00 and the items Milk 3.99, Bread 2.49 in that order.
C1_QuickMartScenario ==
  (Returned /\ text = QuickMartText) =>
    /\ Has(ocrData, "merchant") /\ ocrData.merchant = "QUICK MART"
    /\ Has(ocrData, "date") /\ ocrData.date = "04/12/2025"
    /\ Has(ocrData, "subtotal") /\ ocrData.subtotal = 648
    /\ Has(ocrData, "tax") /\ ocrData.tax = 52
    /\ Has(ocrData, "total") /\ ocrData.total = 700
    /\ ocrData.items = <<[name |-> "Milk", price |-> 399],
                         [name |-> "Bread", price |-> 249]>>

\* the patterns of the list that match the line with a capture that parses
ParsedOn(line, patterns) ==
  {k \in 1..Len(patterns) :
     LET m == matchAmount(line, patterns[k])
     IN m.ok /\ ~isNaN(parseFloat(removeCommas(m.m1)))}

\* the number the line gives the field: that of its first such pattern
ValueOn(line, patterns) ==
  LET m == matchAmount(line, patterns[Min(ParsedOn(line, patterns))])
  IN parseFloat(removeCommas(m.m1)).val

\* the field key has the value of the topmost line that gives it one
TopmostAmount(key, patterns) ==
  LET Q == {i \in 1..Len(Lines) : ParsedOn(Lines[i], patterns) # {}}
  IN Q # {} =>
       Has(ocrData, key) /\ ocrData[key] = ValueOn(Lines[Min(Q)], patterns)

\* C2: for each of total, tax and subtotal, when several lines match one of
\* the field's patterns with a number that parses, the field is the number
\* of the topmost such line, whatever that number is (zero included).
C2_TopmostAmountWins ==
  Returned =>
    /\ TopmostAmount("total", totalPatterns)
    /\ TopmostAmount("tax", taxPatterns)
    /\ TopmostAmount("subtotal", subtotalPatterns)

\* C3: parseReceiptText never throws: every call returns an object that has
\* items and raw_text and no key outside the record's keys.
C3_Totality ==
  /\ pc # "threw"
  /\ Returned =>
       /\ ~threw(ocrData)
       /\ {"items", "raw_text"} \subseteq DOMAIN ocrData
       /\ DOMAIN ocrData \subseteq RecordKeys

\* a whitespace-only document has returned the record with nothing found
C3_WhitespaceOnlyReturned ==
  /\ Returned
  /\ text # ""
  /\ Lines = <<>>
  /\ DOMAIN ocrData = {"items", "raw_text"}

\* C4: raw_text is the input, untrimmed and with its line breaks, and items
\* is a list.
C4_RawTextFidelity ==
  Returned => ocrData.raw_text = text /\ IsList(ocrData.items)

\* a returned document of two lines that trimming would change
C4_UntrimmedReturned ==
  /\ Returned
  /\ trim(text) # text
  /\ Len(split(text)) > 1
  /\ Len(ocrData.items) > 0

\* the item a line that matches the item pattern stands for
ItemOf(line) ==
  LET m == matchItem(line)
  IN [name |-> trim(m.m1), price |-> parseFloat(removeCommas(m.m2)).val]

\* the line matches the item pattern, its amount is > 0 and < 10000 and its
\* lower-cased name holds no excluded keyword
QualifiesAsItem(line) ==
  /\ matchItem(line).ok
  /\ ItemOf(line).price > 0
  /\ ItemOf(line).price < 1000000
  /\ \A w \in {"total", "tax", "subtotal", "amount", "balance"} :
       ~includes(toLowerCase(ItemOf(line).name), w)

\* C5: items is, in document order, the (name, price) of every normalized
\* line that qualifies as an item: one item per such line and no other.
C5_ItemsExhaustiveInOrder ==
  Returned =>
    LET Q == {i \in 1..Len(Lines) : QualifiesAsItem(Lines[i])}
    IN /\ Len(ocrData.items) = Cardinality(Q)
       /\ \A j \in 1..Len(ocrData.items) :
            ocrData.items[j] = ItemOf(Lines[Nth(Q, j)])

\* a returned document with two items or more and a line that is no item
C5_SeveralItemsReturned ==
  /\ Returned
  /\ Len(ocrData.items) >= 2
  /\ Len(Lines) > Len(ocrData.items)

\* C6: the three-line Widget document yields the items (Widget A, 12.99),
\* (Widget B, 7.50) and no other, and total 20.49.
C6_WidgetScenario ==
  (Returned /\ text = WidgetText) =>
    /\ ocrData.items = <<[name |-> "Widget A", price |-> 1299],
                         [name |-> "Widget B", price |-> 750]>>
    /\ Has(ocrData, "total") /\ ocrData.total = 2049

\* the Widget document has returned
C6_WidgetReturned ==
  Returned /\ text = WidgetText /\ Len(ocrData.items) = 2

RejectedLines == {"Serial Number 2024 99999.00", "Free Sample 0.00"}

\* C7: every item has a price p with 0 < p < 10000, and the lines 'Serial
\* Number 2024 99999.00' and 'Free Sample 0.00' produce no item: there are
\* no more items than other lines.
C7_PriceBounds ==
  Returned =>
    /\ \A j \in 1..Len(ocrData.items) :
         /\ ocrData.items[j].price \in Nat
         /\ ocrData.items[j].price > 0
         /\ ocrData.items[j].price < 1000000
    /\ Len(ocrData.items)
         <= Cardinality({i \in 1..Len(Lines) : Lines[i] \notin RejectedLines})

\* a returned document with a rejected line and an item
C7_RejectedLineReturned ==
  /\ Returned
  /\ \E i \in 1..Len(Lines) : Lines[i] \in RejectedLines
  /\ Len(ocrData.items) > 0

\* C8: no item's name contains, in any case, 'total', 'tax', 'subtotal',
\* 'amount' or 'balance'.
C8_NoSummaryItems ==
  Returned =>
    \A j \in 1..Len(ocrData.items) :
      \A w \in {"total", "tax", "subtotal", "amount", "balance"} :
        ~includes(toLowerCase(ocrData.items[j].name), w)

\* a returned document with an item and an upper-case TOTAL line that
\* matches the item pattern
C8_UpperCaseSummaryReturned ==
  /\ Returned
  /\ Len(ocrData.items) > 0
  /\ \E i \in 1..Len(Lines) :
       matchItem(Lines[i]).ok /\ includes(ItemOf(Lines[i]).name, "TOTAL")

\* longer than 3 and shorter than 50, not starting with a digit, with an
\* upper-case Latin letter
QualifiesAsMerchant(line) ==
  /\ Len(line) \in 4..49
  /\ ~(\E d \in Digit : Slice(line, 1, 1) = d)
  /\ \E c \in Upper : includes(line, c)

\* C9: merchant is the topmost normalized line that qualifies, and is absent
\* exactly when none does; for the ACME document it is 'ACME HARDWARE STORE'.
C9_MerchantHeuristic ==
  Returned =>
    LET Q == {i \in 1..Len(Lines) : QualifiesAsMerchant(Lines[i])}
    IN /\ Has(ocrData, "merchant") <=> Q # {}
       /\ Q # {} => ocrData.merchant = Lines[Min(Q)]
       /\ text = AcmeText =>
            Has(ocrData, "merchant") /\ ocrData.merchant = "ACME HARDWARE STORE"

\* the ACME document has returned, its merchant not its first line
C9_AcmeReturned ==
  /\ Returned
  /\ text = AcmeText
  /\ Has(ocrData, "merchant")
  /\ ocrData.merchant # Lines[1]

\* the date patterns that match the line
DatePatternsOn(line) == {k \in 1..3 : matchDate(line, k).ok}

\* C10: date is the whole match, verbatim, of the first pattern in listed
\* order that matches the topmost line any pattern matches; lines below it
\* do not count, and date is absent exactly when no line matches.
C10_DateFirstMatch ==
  Returned =>
    LET Q == {i \in 1..Len(Lines) : DatePatternsOn(Lines[i]) # {}}
    IN /\ Has(ocrData, "date") <=> Q # {}
       /\ Q # {} =>
            LET line == Lines[Min(Q)]
                m == matchDate(line, Min(DatePatternsOn(line)))
            IN /\ ocrData.date = m.m0
               /\ includes(line, ocrData.date)

\* a returned document whose first dated line matches two patterns and has
\* a line with another date below it
C10_TwoDatedLinesReturned ==
  /\ Returned
  /\ Len(Lines) = 2
  /\ Cardinality(DatePatternsOn(Lines[1])) >= 2
  /\ DatePatternsOn(Lines[2]) # {}
  /\ Has(ocrData, "date")
  /\ ~includes(Lines[2], ocrData.date)

\* C11: each of the single-line documents 'Date: 04/12/2025', '2025-04-12'
\* and 'Apr 12, 2025' yields a record whose date is present and is the date
\* written in the document: '04/12/2025', '2025-04-12', 'Apr 12, 2025'.
C11_DateFormatTolerance ==
  Returned =>
    /\ text = DateLineText =>
         Has(ocrData, "date") /\ ocrData.date = "04/12/2025"
    /\ text = "2025-04-12" =>
         Has(ocrData, "date") /\ ocrData.date = "2025-04-12"
    /\ text = "Apr 12, 2025" =>
         Has(ocrData, "date") /\ ocrData.date = "Apr 12, 2025"

\* some line gives the field a number that parses
SomeLineYields(patterns) ==
  \E i \in 1..Len(Lines) : ParsedOn(Lines[i], patterns) # {}

\* the field is there exactly when some line gives it a number, and then
\* holds the number of such a line
FieldFromItsLines(key, patterns) ==
  /\ Has(ocrData, key) <=> SomeLineYields(patterns)
  /\ Has(ocrData, key) =>
       \E i \in 1..Len(Lines) :
         /\ ParsedOn(Lines[i], patterns) # {}
         /\ ocrData[key] = ValueOn(Lines[i], patterns)

\* C12: a document in which some line yields a total and no line yields a
\* tax or a subtotal returns a record with that total and with neither a tax
\* nor a subtotal key; each of the three fields is present exactly when one
\* of its own lines yields it, whatever the other fields are.
C12_FieldIndependence ==
  Returned =>
    /\ ( /\ SomeLineYields(totalPatterns)
         /\ ~SomeLineYields(taxPatterns)
         /\ ~SomeLineYields(subtotalPatterns) )
       => /\ FieldFromItsLines("total", totalPatterns)
          /\ ~Has(ocrData, "tax")
          /\ ~Has(ocrData, "subtotal")
    /\ FieldFromItsLines("total", totalPatterns)
    /\ FieldFromItsLines("tax", taxPatterns)
    /\ FieldFromItsLines("subtotal", subtotalPatterns)

\* a returned document with a total and neither tax nor subtotal
C12_TotalOnlyReturned ==
  /\ Returned
  /\ Len(Lines) = 2
  /\ Has(ocrData, "total") /\ ocrData.total > 0
  /\ ~Has(ocrData, "tax")
  /\ ~Has(ocrData, "subtotal")

\* the first pattern of the list, in its order, that matches the line: 0 when
\* none does
FirstMatching(line, patterns) ==
  LET K == {k \in 1..Len(patterns) : matchAmount(line, patterns[k]).ok}
  IN IF K = {} THEN 0 ELSE Min(K)

\* the capture of the line's first matching pattern, parsed
FirstCapture(line, patterns) ==
  parseFloat(removeCommas(
    matchAmount(line, patterns[FirstMatching(line, patterns)]).m1))

\* the line matches for the field: a pattern matches it and the capture of
\* the first that does parses; a line whose capture does not parse counts as
\* non-matching
MatchesField(line, patterns) ==
  /\ FirstMatching(line, patterns) > 0
  /\ ~isNaN(FirstCapture(line, patterns))

\* the field comes from the lines that match for it, and is absent without
\* one
RecoveredField(key, patterns) ==
  LET V == {i \in 1..Len(Lines) : MatchesField(Lines[i], patterns)}
  IN /\ Has(ocrData, key) <=> V # {}
     /\ Has(ocrData, key) =>
          \E i \in V : ocrData[key] = FirstCapture(Lines[i], patterns).val

\* C14: a label pattern that matches a line with a capture that does not
\* parse raises no exception; the line then counts as non-matching for the
\* field, a later line with a valid number supplies the value, and the
\* field is absent when no line matches with a valid number.
C14_MalformedCaptureRecovery ==
  /\ pc # "threw"
  /\ Returned =>
       /\ RecoveredField("total", totalPatterns)
       /\ RecoveredField("tax", taxPatterns)
       /\ RecoveredField("subtotal", subtotalPatterns)

\* the patterns of the list that match the line with a capture that does not
\* parse
MalformedOn(line, patterns) ==
  {k \in 1..Len(patterns) :
     LET m == matchAmount(line, patterns[k])
     IN m.ok /\ isNaN(parseFloat(removeCommas(m.m1)))}

\* the field is a number of a line on which one of its patterns parses,
\* whether or not another pattern matched that line with a capture that
\* does not parse, and is absent when there is no such line
SkipsMalformed(key, patterns) ==
  LET Q == {i \in 1..Len(Lines) : ParsedOn(Lines[i], patterns) # {}}
  IN /\ Has(ocrData, key) <=> Q # {}
     /\ Has(ocrData, key) =>
          /\ ocrData[key] \in Nat
          /\ \E i \in Q : ocrData[key] = ValueOn(Lines[i], patterns)

\* C14 as amended: a pattern that matches with a capture that does not
\* parse raises no exception and counts as not matching; the field's other
\* patterns are still tried on the same line, then the lines below, and the
\* field is absent only when no pattern parses on any line.
C14_MalformedMatchSkipped ==
  /\ pc # "threw"
  /\ Returned =>
       /\ SkipsMalformed("total", totalPatterns)
       /\ SkipsMalformed("tax", taxPatterns)
       /\ SkipsMalformed("subtotal", subtotalPatterns)

\* a returned document whose first line has a total pattern with a capture
\* that does not parse, and whose total comes from the line below
C14_MalformedThenValidReturned ==
  /\ Returned
  /\ Len(Lines) = 2
  /\ MalformedOn(Lines[1], totalPatterns) # {}
  /\ ParsedOn(Lines[1], totalPatterns) = {}
  /\ Has(ocrData, "total")
  /\ ocrData.total = ValueOn(Lines[2], totalPatterns)

\* the line ends with a decimal point and exactly two digits after it
EndsInTwoDecimals(line) ==
  LET n == Len(line)
  IN /\ n >= 4
     /\ Ch(line, n) \in Digit
     /\ Ch(line, n - 1) \in Digit
     /\ Ch(line, n - 2) = "."
     /\ Ch(line, n - 3) \in DigitComma

\* C15: a line becomes an item only if it ends with an amount that has a
\* decimal point and exactly two digits after it: every item is that of such
\* a line, and 'Room 1234', 'Apr 12, 2025' and a line ending in one decimal
\* digit give no item.
C15_ItemNeedsTwoDecimals ==
  Returned =>
    LET Q == {i \in 1..Len(Lines) : EndsInTwoDecimals(Lines[i])}
    IN /\ Len(ocrData.items) <= Cardinality(Q)
       /\ \A j \in 1..Len(ocrData.items) :
            \E i \in Q : ocrData.items[j] = ItemOf(Lines[i])

\* the document holds nothing but whitespace and line breaks
OnlyWhitespace(t) == \A i \in 1..Len(t) : Ch(t, i) \in Space

\* C16: the empty document and every document of whitespace and line breaks
\* has no normalized line and returns items = [], raw_text = the input and
\* no other key; for every document the normalized lines are the pieces
\* between line feeds, trimmed, the empty ones dropped, in their order.
C16_DegenerateInput ==
  LET raw == split(text)
      Q == {i \in 1..Len(raw) : trim(raw[i]) # ""}
  IN /\ Len(Lines) = Cardinality(Q)
     /\ \A j \in 1..Len(Lines) : Lines[j] = trim(raw[Nth(Q, j)])
     /\ OnlyWhitespace(text) => Lines = <<>>
     /\ (Returned /\ OnlyWhitespace(text)) =>
          /\ DOMAIN ocrData = {"items", "raw_text"}
          /\ ocrData.items = <<>>
          /\ ocrData.raw_text = text

\* a document of whitespace and a line break has returned
C16_BlankLinesReturned ==
  /\ Returned
  /\ OnlyWhitespace(text)
  /\ Len(split(text)) = 2
  /\ Len(text) > 1

\* the line without the first occurrence of the substring sub
Without(line, sub) ==
  LET P == {p \in 1..Len(line) : Slice(line, p, p + Len(sub) - 1) = sub}
  IN IF P = {} THEN line
     ELSE Slice(line, 1, Min(P) - 1) \o Slice(line, Min(P) + Len(sub), Len(line))

\* the line holds a year-first date with a four-digit year and a two-digit
\* day, and no date besides it
OnlyYearFirstDate(line) ==
  LET m == matchDate(line, 2)
  IN /\ m.ok
     /\ RunLen(m.m0, 1, Digit) = 4
     /\ RunLenBack(m.m0, Len(m.m0), Digit) = 2
     /\ DatePatternsOn(Without(line, m.m0)) = {}

\* C20: when the topmost dated line holds a year-first date with a
\* four-digit year and a two-digit day and no other date, the date is the
\* whole year-first substring, four year digits included ('2025-04-12').
C20_YearFirstWhole ==
  Returned =>
    LET Q == {i \in 1..Len(Lines) : DatePatternsOn(Lines[i]) # {}}
    IN (Q # {} /\ OnlyYearFirstDate(Lines[Min(Q)])) =>
         /\ Has(ocrData, "date")
         /\ ocrData.date = matchDate(Lines[Min(Q)], 2).m0
         /\ RunLen(ocrData.date, 1, Digit) = 4

(***************************************************************************)
(* Properties of the OCR runs.                                             *)
(***************************************************************************)
\* the run is over: processReceipt has resolved, or the POST handler has
\* answered
Ended(run) ==
  \/ run.flow = "hook" /\ run.at \in {"refresh", "receipts", "json", "done"}
  \/ run.flow = "post" /\ run.at = "done"

\* the row is marked as failed
MarkedFailed(row) == row.ocr_processed /\ row.ocr_error # Null

\* the step ends run r, which has met a failure outside the parser
FailedRunEnds(r) == ~Ended(runs[r]) /\ Ended(runs'[r]) /\ runs'[r].failed

\* C13: when a run that failed outside the parser (signed URL, download,
\* engine or save) ends, in the click flow and in the POST flow, the receipt,
\* if its row is still there, is marked as failed, ocr_processed true and
\* ocr_error not null, and the run's parsed output is not stored.
C13_FailureMarking ==
  [][\A r \in Runs :
       (FailedRunEnds(r) /\ exists(receipt')) =>
         /\ MarkedFailed(receipt')
         /\ ~runs'[r].stored]_vars

\* the POST run has answered success
AnsweredSuccess(run) ==
  run.flow = "post" /\ run.at = "done" /\ run.response.status = 200

\* the step in which POST run r answers success
AnswersSuccess(r) == ~AnsweredSuccess(runs[r]) /\ AnsweredSuccess(runs'[r])

\* the step is the database doing the update of POST run r
PostUpdateDone(r) ==
  runs[r].flow = "post" /\ runs[r].at = "update" /\ runs'[r].at = "updated"

\* C18: a POST run answers success, with its data d, only after its update
\* has set ocr_processed = true, ocr_data = d and ocr_error = null on the
\* row of the receipt; success is never answered without that update having
\* been done on the row.
C18_PostSuccessContract ==
  [][\A r \in Runs :
       /\ AnswersSuccess(r) =>
            /\ runs[r].at = "updated"
            /\ runs[r].stored
            /\ runs'[r].response.data = runs[r].data
       /\ PostUpdateDone(r) =>
            receipt' = [ocr_processed |-> TRUE,
                        ocr_data |-> runs'[r].data,
                        ocr_error |-> Null]]_vars

(***************************************************************************)
(* Properties of OCRImages.                                                *)
(***************************************************************************)
\* the calls of the callback fn, in their order
CallsOf(fn) == SelectSeq(calls, LAMBDA c : c.fn = fn)

\* the property names of the pages 1, 2, ...
PageNames ==
  <<"1", "2", "3", "4", "5", "6", "7", "8", "9", "10", "11", "12", "13">>

\* the longest list of texts that is indexed by page for C19
MaxPages == 12

\* the page-indexed object of n texts has exactly the keys '1'..'n', and
\* key i holds text i
IndexedByPage(t) ==
  /\ DOMAIN pageIndexed(t) = {PageNames[i] : i \in DOMAIN t}
  /\ \A i \in DOMAIN t : pageIndexed(t)[PageNames[i]] = t[i]

\* lists of up to MaxPages texts, no two of a list the same
IndexedUpToMaxPages ==
  \A n \in 0..MaxPages : IndexedByPage([i \in 1..n |-> PageNames[n + 1 - i]])

\* C19: when OCRImages resolves, whatever the order in which the tasks have
\* settled, the result has exactly the keys '1'..'n', n = urls.length, and
\* key i holds the text recognized from urls[i-1]; onStart was called once,
\* first, with current 0 and total n, and onProgress once per image, its
\* last call with current = total.  The indexing by page alone is checked
\* for lists of up to MaxPages texts as well.
C19_PageIndexing ==
  /\ IndexedUpToMaxPages
  /\ images.at = "resolved" =>
       LET n == Len(urls)
           onStarts == CallsOf("onStart")
           onProgresses == CallsOf("onProgress")
       IN /\ DOMAIN images.result = {PageNames[i] : i \in 1..n}
          /\ \A i \in 1..n : images.result[PageNames[i]] = PageText[urls[i]]
          /\ Len(onStarts) = 1
          /\ calls[1] = [fn |-> "onStart", current |-> 0, total |-> n]
          /\ Len(onProgresses) = n
          /\ \A k \in 1..n : onProgresses[k].total = n
          /\ n > 0 => onProgresses[n].current = n

\* a call on two different images has resolved, the second image's task
\* having settled first
C19_SettledOutOfOrderResolved ==
  /\ images.at = "resolved"
  /\ Len(urls) = 2
  /\ urls[1] # urls[2]
  /\ tasks[2].rank < tasks[1].rank

\* the line carries a subtotal label followed by an amount
SubtotalLine(line) ==
  \E k \in 1..Len(subtotalPatterns) : matchAmount(line, subtotalPatterns[k]).ok

\* C21: the total is never taken from a line whose label is a subtotal
\* label: a total that is returned is the number some line without a
\* subtotal label gives the total patterns, so a document whose only amount
\* line is a subtotal line has no total.
C21_TotalNotFromSubtotalLine ==
  (Returned /\ Has(ocrData, "total")) =>
    \E i \in 1..Len(Lines) :
      /\ ~SubtotalLine(Lines[i])
      /\ ParsedOn(Lines[i], totalPatterns) # {}
      /\ ocrData.total = ValueOn(Lines[i], totalPatterns)

(***************************************************************************)
(* The receipt's OCR columns                                               *)
(***************************************************************************)
\* C22: after any sequence and interleaving of OCR runs through the PATCH
\* and the POST endpoints the row never has both a non-null ocr_data and a
\* non-null ocr_error.
C22_ColumnsExclusive ==
  exists(receipt) => ~(receipt.ocr_data # Null /\ receipt.ocr_error # Null)

(***************************************************************************)
(* Labels of one field on one line                                         *)
(***************************************************************************)
\* when exactly one line gives the field a number, the field is the number
\* after the label that is first in the field's list among the labels that
\* give a number on that line
ByListOrder(key, patterns) ==
  LET Q == {i \in 1..Len(Lines) : ParsedOn(Lines[i], patterns) # {}}
  IN Cardinality(Q) = 1 =>
       \A i \in Q :
         Has(ocrData, key) /\ ocrData[key] = ValueOn(Lines[i], patterns)

\* C23: within a line that has several labels of a field, each followed by a
\* number, the field's value is that of the label earliest in the field's
\* list (total before amount before balance, tax before gst before vat), not
\* that of the leftmost label.
C23_WithinLinePriority ==
  Returned =>
    /\ ByListOrder("total", totalPatterns)
    /\ ByListOrder("tax", taxPatterns)
    /\ ByListOrder("subtotal", subtotalPatterns)

\* the document with 'Balance 5.00 Total 7.00' and 'Vat 1.00 Tax 2.00' has
\* returned the numbers after Total and Tax, the labels on the right
C23_RightmostLabelsReturned ==
  /\ Returned
  /\ text = PriorityText
  /\ ParsedOn(Lines[1], totalPatterns) = {1, 3}
  /\ ParsedOn(Lines[2], taxPatterns) = {1, 3}
  /\ ocrData.total = 700
  /\ ocrData.tax = 200

(***************************************************************************)
(* The runs of one component                                               *)
(***************************************************************************)
\* the run was started by a click and processReceipt has not resolved yet:
\* it awaits the signed URL or one of the awaits of processReceipt
InFlight(run) ==
  /\ run.flow = "hook"
  /\ run.at \in {"signedUrl", "fetchFile", "blob", "arrayBuffer",
                 "getDocument", "getPage", "render", "toBlob",
                 "createWorker", "recognize", "terminate",
                 "save", "saveError"}

\* C24: for one component at most one run started by a click is in flight
\* at any time, the await of the signed URL included: a second click cannot
\* start a second run before the first has finished.
C24_SingleRunInFlight ==
  \A i \in 0..MaxRuns :
    Cardinality({r \in Runs : InFlight(runs[r]) /\ runs[r].instance = i}) <= 1

(***************************************************************************)
(* The end of processReceipt                                               *)
(***************************************************************************)
\* the step in which the run's call of processReceipt resolves, in a
\* component that is mounted: after the save has answered ok, or after the
\* await of the PATCH that saves the error
Resolves(r) ==
  /\ runs[r].flow = "hook"
  /\ runs[r].at \in {"save", "saveError"}
  /\ runs'[r].at \in {"refresh", "done"}
  /\ hook.mounted /\ hook.instance = runs[r].instance

\* processReceipt has returned the parsed record: the save answered ok, error
\* is null and the progress is 'Complete!', 100
ResolvedWithRecord(r) ==
  /\ runs[r].at = "save"
  /\ \E q \in awaited(r) : q.at = "answered" /\ ok(q)
  /\ runs'[r].result = runs[r].data
  /\ hook'.error = Null
  /\ hook'.status = "Complete!" /\ hook'.progress = 100

\* processReceipt has returned null: error is the failure's message and the
\* progress is reset
ResolvedWithNull(r) ==
  /\ runs[r].at = "saveError"
  /\ runs'[r].result = Null
  /\ hook'.error = runs[r].err
  /\ hook'.status = "idle" /\ hook'.progress = 0

\* C25: when a call of processReceipt resolves, processing is false; it
\* returns the parsed record only after the save PATCH answered ok, with
\* error null and progress 'Complete!', 100; otherwise it returns null with
\* error set to the failure's message and progress reset to 'idle', 0,
\* whatever becomes of the PATCH that saves the error.
C25_ProcessReceiptEndState ==
  [][\A r \in Runs :
       Resolves(r) =>
         /\ ~hook'.processing
         /\ ResolvedWithRecord(r) \/ ResolvedWithNull(r)]_vars

(***************************************************************************)
(* The outcome of PATCH /api/receipts/[id]/ocr-data                        *)
(***************************************************************************)
\* the step in which the PATCH handler returns the response to request q of
\* run r, a request of the hook or of another client
PatchHandled(r, q, response) ==
  /\ q.at # "answered"
  /\ [q EXCEPT !.at = "answered", !.status = response] \in runs'[r].requests

\* the statuses of the responses of the PATCH handler
PatchStatuses == {200, 401, 404, 500}

\* the row after a request that supplies an error: the error, and no data
ErrorSaved(row, body) ==
  row.ocr_error = Str(body.error) /\ row.ocr_data = Null

\* the row after a request that supplies no error: the record, and no error
DataSaved(row, body) ==
  row.ocr_data = body.ocrData /\ row.ocr_error = Null

\* C26: a PATCH request of an authenticated user on an existing receipt
\* whose update succeeds leaves the row with ocr_processed true and exactly
\* one of ocr_error and ocr_data non-null: the supplied error and no data
\* when an error is supplied, otherwise the supplied record and no error; a
\* request that is unauthorized or names an unknown receipt changes no row.
C26_PatchOutcome ==
  [][\A r \in Runs : \A q \in runs[r].requests :
       \A response \in PatchStatuses :
         (PatchHandled(r, q, response) /\ exists(receipt)) =>
           /\ response = 200 =>
                /\ receipt'.ocr_processed
                /\ (receipt'.ocr_error = Null) # (receipt'.ocr_data = Null)
                /\ IF "error" \in DOMAIN q.body
                   THEN ErrorSaved(receipt', q.body)
                   ELSE DataSaved(receipt', q.body)
           /\ response \in {401, 404} =>
                receipt' = receipt]_vars

(***************************************************************************)
(* The OCR worker of processReceipt                                        *)
(***************************************************************************)
\* C28: every worker created by processReceipt is terminated before
\* processReceipt resolves, on the success path and on every failure path,
\* a failure of the recognition included.
C28_HookWorkerReleased ==
  \A r \in Runs :
    (runs[r].flow = "hook"
       /\ runs[r].at \in {"refresh", "receipts", "json", "done"}) =>
      runs[r].worker # "created"

(***************************************************************************)
(* The OCR workers of OCRImages                                            *)
(***************************************************************************)
\* the task of image i has created its worker and is in its try block, at
\* the await of setParameters or of recognize
HoldsWorker(i) ==
  /\ i \in DOMAIN tasks
  /\ tasks[i].worker = "created"
  /\ tasks[i].at \in {"setParameters", "recognize"}

\* the task of image i has called worker.terminate() and awaits it
TerminateCalled(i) == i \in DOMAIN tasks /\ tasks[i].at = "terminate"

\* the worker of the task of image i is terminated
Terminated(i) == i \in DOMAIN tasks /\ tasks[i].worker = "terminated"

\* C29: every worker that OCRImages has created is terminated in the end,
\* whether the task's setParameters and recognize succeed or throw, and
\* also when another image's task has already failed and OCRImages has
\* rejected.
C29_ImageWorkersReleased ==
  \A i \in 1..MaxImages : HoldsWorker(i) ~> Terminated(i)

\* C29 as the code has it: worker.terminate() is called on every worker
\* that OCRImages has created, whether the task's setParameters and
\* recognize succeed or throw, and also when another image's task has
\* already failed and OCRImages has rejected; the worker is terminated when
\* that call fulfils, as it has for every task that is fulfilled.
C29_TerminateAlwaysCalled ==
  /\ \A i \in 1..MaxImages : HoldsWorker(i) ~> TerminateCalled(i)
  /\ [](\A i \in DOMAIN tasks :
          tasks[i].at = "fulfilled" => tasks[i].worker = "terminated")

\* the first image's task has failed, OCRImages has rejected, and after
\* that the second image's task, whose try block has thrown, has terminated
\* its worker
C29_TerminatedAfterRejection ==
  /\ Len(tasks) = 2
  /\ images.at = "rejected"
  /\ tasks[1].at = "rejected"
  /\ tasks[2].threw
  /\ tasks[2].worker = "terminated"
  /\ tasks[1].rank < tasks[2].rank

(***************************************************************************)
(* Thousands separators                                                    *)
(***************************************************************************)
RECURSIVE DigitsOf(_)
\* the digits of the string, in order
DigitsOf(s) ==
  IF s = "" THEN ""
  ELSE IF Ch(s, 1) \in Digit THEN Ch(s, 1) \o DigitsOf(Slice(s, 2, Len(s)))
       ELSE DigitsOf(Slice(s, 2, Len(s)))

\* the number written in the capture, read without its separators, in
\* hundredths: the digits before the '.', and the decimals after it
PlainValue(c) ==
  LET dot == 1 + RunLenNot(c, 1, {"."})
  IN 100 * DigitsValue(DigitsOf(Slice(c, 1, dot - 1)))
     + Hundredths(DigitsOf(Slice(c, dot + 1, dot + 2)))

\* the patterns of the list that match the line with a capture that has a
\* digit
WithDigits(line, patterns) ==
  {k \in 1..Len(patterns) :
     LET m == matchAmount(line, patterns[k])
     IN m.ok /\ DigitsOf(m.m1) # ""}

\* the capture of the first of these patterns
NumberWritten(line, patterns) ==
  matchAmount(line, patterns[Min(WithDigits(line, patterns))]).m1

\* when some line has the field's label with a number, the field is the
\* number written on such a line, read without its separators
ReadWithoutSeparators(key, patterns) ==
  LET Q == {i \in 1..Len(Lines) : WithDigits(Lines[i], patterns) # {}}
  IN Q # {} =>
       /\ Has(ocrData, key)
       /\ \E i \in Q :
            ocrData[key] = PlainValue(NumberWritten(Lines[i], patterns))

\* the line is an item line whose price is written with a comma
ItemWithSeparator(line) ==
  LET m == matchItem(line)
  IN /\ m.ok
     /\ includes(m.m2, ",")
     /\ PlainValue(m.m2) > 0 /\ PlainValue(m.m2) < 1000000
     /\ \A w \in ExcludedKeywords : ~includes(toLowerCase(trim(m.m1)), w)

\* C30: for total, tax, subtotal and the item prices the commas of the
\* captured amount are removed before parsing: the value is the decimal
\* number written without separators ('Total: $1,234.56' yields 1234.56,
\* 'Laptop $1,234.56' an item priced 1234.56).
C30_ThousandsSeparators ==
  Returned =>
    /\ ReadWithoutSeparators("total", totalPatterns)
    /\ ReadWithoutSeparators("tax", taxPatterns)
    /\ ReadWithoutSeparators("subtotal", subtotalPatterns)
    /\ \A i \in 1..Len(Lines) :
         ItemWithSeparator(Lines[i]) =>
           \E j \in 1..Len(ocrData.items) :
             ocrData.items[j] =
               [name |-> trim(matchItem(Lines[i]).m1),
                price |-> PlainValue(matchItem(Lines[i]).m2)]
    /\ \A j \in 1..Len(ocrData.items) :
         \E i \in 1..Len(Lines) :
           /\ matchItem(Lines[i]).ok
           /\ ocrData.items[j].price = PlainValue(matchItem(Lines[i]).m2)

\* the document with a separator in each amount has returned the four
\* numbers
C30_SeparatedAmountsReturned ==
  /\ Returned
  /\ text = ThousandsText
  /\ ocrData.total = 123456
  /\ ocrData.tax = 100050
  /\ ocrData.subtotal = 234500
  /\ ocrData.items = <<[name |-> "Laptop", price |-> 123456]>>

====
